---- MODULE Spec2Model ----
(***************************************************************************)
(* A model of the pylint language server (bundled/tool/lsp_server.py and   *)
(* the helpers of bundled/linter/utils.py): the settings store, the        *)
(* document-lifecycle handlers, the three execution strategies and the     *)
(* process-wide state the in-process strategy substitutes.                 *)
(*                                                                         *)
(* Handlers are dispatched as independent units of work on the server's    *)
(* worker pool (LanguageServer(max_workers=MAX_WORKERS)); a handler is     *)
(* split at its suspension points: the wait for the child process, the     *)
(* wait for the delegate's response, the wait for the working-directory    *)
(* lock and the execution of the tool itself.                              *)
(***************************************************************************)
EXTENDS Integers, Sequences, FiniteSets, TLC

(***************************************************************************)
(* Bounds of the model.                                                    *)
(***************************************************************************)
\* number of notifications and requests the client sends after initialize
\* in one behaviour
MaxNotifications == 2
\* number of pool workers that handle notifications at the same time
MaxInFlight == 2
\* largest line number and largest column in a finding of a parser call
MaxLine == 2
MaxColumn == 1
\* number of diagnostics in the context of a code-action request, and of
\* codes in the list of a quick-fix decorator
MaxContext == 2

(***************************************************************************)
(* Program constants.                                                      *)
(***************************************************************************)
MAX_WORKERS == 5
TOOL_MODULE == "pylint"
TOOL_ARGS == <<"--reports=n", "--output-format=json">>
\* the oldest version of the tool that is supported
MIN_VERSION == <<2, 12, 2>>
\* (major, minor) from which --clear-cache-post-run is understood
CLEAR_CACHE_MIN == <<2, 16>>

\* sys.executable, sys.argv, sys.path and os.getcwd() of the server process
ServerInterpreter == "python3"
ServerArgv == <<"lsp_server.py">>
ServerSysPath == <<"libs">>
ServerCwd == <<"srv">>

Workers == 1..MaxInFlight

(***************************************************************************)
(* Paths are sequences of components; << >> is the filesystem root.        *)
(***************************************************************************)
Parent(p) == IF p = << >> THEN << >> ELSE SubSeq(p, 1, Len(p) - 1)

IsPrefix(s, p) == Len(s) <= Len(p) /\ SubSeq(p, 1, Len(s)) = s

\* os.path.normcase(os.path.normpath(p)) on a POSIX path: "." segments vanish
normalize_path(p) == SelectSeq(p, LAMBDA c : c # ".")

to_fs_path(uri) == uri.path

from_fs_path(p) == [scheme |-> "file", path |-> p]

RootA == <<"a">>
RootB == <<"b">>

(***************************************************************************)
(* The documents of the editor.                                            *)
(***************************************************************************)
UriA == [scheme |-> "file", path |-> <<"a", "m.py">>]
UriB == [scheme |-> "file", path |-> <<"b", "n.py">>]
UriCell == [scheme |-> "vscode-notebook-cell", path |-> <<"a", "nb.ipynb">>]
UriStd == [scheme |-> "file", path |-> <<"lib", "site-packages", "os.py">>]
URIs == {UriA, UriB, UriCell, UriStd}

Texts == {"clean", "dirty"}

\* JSON null
Null == -1

\* one record of pylint's JSON report; endLine and endColumn may be missing
Finding(line, column, message_id, symbol, type, message) ==
    [line |-> line, column |-> column, symbol |-> symbol, type |-> type,
     message |-> message] @@ ("message-id" :> message_id)

WithEnd(data, endLine, endColumn) ==
    data @@ [endLine |-> endLine, endColumn |-> endColumn]

UnusedImport ==
    WithEnd(Finding(1, 0, "W0611", "unused-import", "warning",
                    "Unused import sys"), 1, 10)

UndefinedVariable ==
    Finding(2, 0, "E0602", "undefined-variable", "error",
            "Undefined variable 'x'")

\* a record without a line number
BadRecord ==
    Finding(Null, 0, "F0001", "fatal", "fatal", "error while code parsing")

\* what pylint reports for a text
Findings(text) == IF text = "dirty" THEN <<UndefinedVariable>> ELSE << >>

\* site.getsitepackages() + site.getusersitepackages(), normalised
_site_paths == {<<"lib", "site-packages">>}

\* no file is taken for a library file
is_stdlib_file_never(file_path) == FALSE

is_stdlib_file(file_path) ==
    \E s \in _site_paths : IsPrefix(s, normalize_path(file_path))

(***************************************************************************)
(* Ignore globs, each given by the file names and the directories it       *)
(* matches.                                                                *)
(***************************************************************************)
GlobM == [names |-> {"m.py", "nb.ipynb"}, under |-> << >>]       \* **/m*.py
GlobN == [names |-> {"n.py"}, under |-> <<"b">>]                  \* /b/**/n*.py
GlobNothing == [names |-> {"something.py"}, under |-> << >>]     \* **/something*.py

GlobMatches(glob, file_path) ==
    /\ file_path # << >>
    /\ file_path[Len(file_path)] \in glob.names
    /\ IsPrefix(glob.under, file_path)

is_match(patterns, file_path) ==
    \E i \in 1..Len(patterns) : GlobMatches(patterns[i], file_path)

is_current_interpreter(executable) == executable = ServerInterpreter


\* os.fspath / str of a path, as it appears in an argument vector
fspath(p) ==
    CASE p = <<"a", "m.py">> -> "/a/m.py"
      [] p = <<"b", "n.py">> -> "/b/n.py"
      [] p = <<"a", "nb.ipynb">> -> "/a/nb.ipynb"
      [] p = <<"lib", "site-packages", "os.py">> -> "/lib/site-packages/os.py"
      [] OTHER -> "/"

(***************************************************************************)
(* Settings as the client sends them.  cwd is a path or one of the two     *)
(* placeholders.                                                           *)
(***************************************************************************)
WorkspaceFolder == <<"${workspaceFolder}">>
FileDirname == <<"${fileDirname}">>

Setting(root, cwd, path, interpreter, args, ignorePatterns) ==
    [workspace |-> from_fs_path(root), cwd |-> cwd, path |-> path,
     interpreter |-> interpreter, args |-> args,
     ignorePatterns |-> ignorePatterns]

ModuleSetting(root) ==
    Setting(root, WorkspaceFolder, << >>, <<ServerInterpreter>>, << >>, << >>)

\* The initialize requests of the model: the settings array, the global
\* settings and, for each workspace root, what `--version` prints there.
\* A probe ends with the text the tool printed, a sequence of lines of
\* words, or raises because the tool could not be run.  A version word is
\* the numbers it parses to, << >> when it is not a version.
NoVersion == [raised |-> FALSE, stdout |-> << >>]
VersionOutput(v) ==
    [raised |-> FALSE,
     stdout |-> << <<"pylint", v>>, <<"astroid", <<2, 9, 3>> >> >>]

InitOptions ==
    { \* both roots in process, with different working directories
      [settings |-> <<ModuleSetting(RootA),
                      Setting(RootB, RootB \o <<"sub">>, << >>,
                              <<ServerInterpreter>>, << >>, << >>)>>,
       globalSettings |-> << >>,
       version |-> [r \in {RootA, RootB} |->
                      IF r = RootA THEN VersionOutput(<<2, 16, 0>>)
                                   ELSE VersionOutput(<<2, 12, 2>>)]],
      \* a tool path next to a foreign interpreter; a foreign interpreter
      [settings |-> <<Setting(RootA, WorkspaceFolder, <<"pylint">>,
                              <<"other-python">>, <<"--disable=C0114">>, << >>),
                      Setting(RootB, FileDirname, << >>, <<"other-python">>,
                              << >>, <<GlobNothing>>)>>,
       globalSettings |-> << >>,
       version |-> [r \in {RootA, RootB} |->
                      IF r = RootA THEN VersionOutput(<<2, 17, 1>>)
                                   ELSE NoVersion]],
      \* one foreign interpreter for both roots; the tool cannot be run in
      \* the first and is older than MIN_VERSION in the second
      [settings |-> <<Setting(RootA, WorkspaceFolder, << >>,
                              <<"other-python">>, << >>, << >>),
                      Setting(RootB, WorkspaceFolder, << >>,
                              <<"other-python">>, << >>, << >>)>>,
       globalSettings |-> << >>,
       version |-> [r \in {RootA, RootB} |->
                      IF r = RootA THEN [raised |-> TRUE, stdout |-> << >>]
                                   ELSE VersionOutput(<<2, 11, 0>>)]],
      \* a foreign interpreter for each root; the first prints one word, the
      \* second a word that is not a version
      [settings |-> <<Setting(RootA, WorkspaceFolder, << >>,
                              <<"other-python">>, << >>, << >>),
                      Setting(RootB, WorkspaceFolder, << >>,
                              <<"third-python">>, << >>, << >>)>>,
       globalSettings |-> << >>,
       version |-> [r \in {RootA, RootB} |->
                      IF r = RootA
                      THEN [raised |-> FALSE, stdout |-> << <<"pylint">> >>]
                      ELSE [raised |-> FALSE,
                            stdout |-> << <<"pylint", << >> >> >>]]],
      \* no interpreter at all; a tool path whose documents are ignored
      [settings |-> <<Setting(RootA, FileDirname, << >>, << >>, <<"--jobs=1">>,
                              <<GlobNothing>>),
                      Setting(RootB, WorkspaceFolder, <<"pylint", "-v">>,
                              <<ServerInterpreter>>, << >>,
                              <<GlobNothing, GlobN>>)>>,
       globalSettings |-> << >>,
       version |-> [r \in {RootA, RootB} |-> VersionOutput(<<3, 0, 0>>)]],
      \* one root, in process, whose documents are ignored
      [settings |-> <<Setting(RootA, WorkspaceFolder, << >>,
                              <<ServerInterpreter>>, << >>, <<GlobM>>)>>,
       globalSettings |-> << >>,
       version |-> [r \in {RootA} |-> VersionOutput(<<2, 16, 0>>)]],
      \* no workspace settings; a global tool path
      [settings |-> << >>,
       globalSettings |-> [path |-> <<"pylint">>],
       version |-> [r \in {ServerCwd} |-> VersionOutput(<<2, 16, 0>>)]] }

(***************************************************************************)
(* State.                                                                  *)
(***************************************************************************)
VARIABLES
    lint_on_change,      \* os.getenv("VSCODE_PYLINT_LINT_ON_CHANGE")
    request,             \* the initialize request received, << >> before it
    WORKSPACE_SETTINGS,  \* workspace root -> settings
    GLOBAL_SETTINGS,     \* global settings received at initialize
    VERSION_TABLE,       \* workspace root -> (major, minor, micro)
    docs,                \* LSP_SERVER.workspace: uri -> document
    workers,             \* the pool: worker -> the handler it runs
    proc,                \* process-wide cwd, sys.argv, sys.std*, sys.path
    CWD_LOCK,            \* 0 when free, else the worker holding it
    published,           \* uri -> the last publishDiagnostics sent
    notes,               \* notifications received so far
    jsonrpc,             \* lsp_jsonrpc: the delegate children and channels
    pending,             \* a parse or code-action call being made
    reply                \* what the call returned

vars == <<lint_on_change, request, WORKSPACE_SETTINGS, GLOBAL_SETTINGS,
          VERSION_TABLE, docs, workers, proc, CWD_LOCK, published, notes,
          jsonrpc, pending, reply>>

Get(d, k, default) == IF k \in DOMAIN d THEN d[k] ELSE default

Stream(owner, name) == [owner |-> owner, name |-> name]

ServerProc ==
    [cwd |-> ServerCwd, argv |-> ServerArgv, path |-> ServerSysPath,
     stdin |-> Stream(0, "stdin"), stdout |-> Stream(0, "stdout"),
     stderr |-> Stream(0, "stderr")]

NoDocument == [open |-> FALSE, version |-> 0, source |-> "clean"]

IdleWorker ==
    [pc |-> "idle", uri |-> UriA, kind |-> "none", strategy |-> "none",
     argv |-> << >>, cwd |-> << >>, use_stdin |-> FALSE, source |-> "clean",
     version |-> 0, closed |-> FALSE, saved |-> ServerProc, seen |-> {},
     outcome |-> "none", out |-> {}, interpreter |-> << >>]

\* lsp_jsonrpc before the first delegate run.  `children` are the live
\* delegate children in the order they were started, each named by the
\* interpreter it runs; `requests` are the run requests written to a channel
\* and not answered yet, in the order they were written.
NoDelegates == [children |-> << >>, requests |-> << >>]

\* A publishDiagnostics notification: the handler that sent it and its list.
\* The other fields record the run behind it: the document version it was
\* started for, whether that version was still the document's when the list
\* was sent, whether the document was closed meanwhile, how the tool ended
\* ("none" when no tool was run), the list shown before and how the tool
\* ended in the run behind that list.
NothingPublished ==
    [by |-> "none", diagnostics |-> << >>, version |-> 0, current |-> TRUE,
     closed |-> FALSE, outcome |-> "none", before |-> << >>,
     prior |-> "none"]

NoCall == [method |-> "none"]

Init ==
    /\ lint_on_change \in BOOLEAN
    /\ request = << >>
    /\ WORKSPACE_SETTINGS = << >>
    /\ GLOBAL_SETTINGS = << >>
    /\ VERSION_TABLE = << >>
    /\ docs = [u \in URIs |-> NoDocument]
    /\ workers = [w \in Workers |-> IdleWorker]
    /\ proc = ServerProc
    /\ CWD_LOCK = 0
    /\ published = [u \in URIs |-> NothingPublished]
    /\ notes = 0
    /\ jsonrpc = NoDelegates
    /\ pending = NoCall
    /\ reply = NoCall


(***************************************************************************)
(* Settings store.                                                         *)
(***************************************************************************)
GlobalDefaults(globals) ==
    [path |-> Get(globals, "path", << >>),
     interpreter |-> Get(globals, "interpreter", <<ServerInterpreter>>),
     args |-> Get(globals, "args", << >>),
     ignorePatterns |-> << >>]

_get_global_defaults == GlobalDefaults(GLOBAL_SETTINGS)

\* a settings record anchored at `key`, filled from the global defaults
DefaultsAt(key, defaults) ==
    [cwd |-> key, workspaceFS |-> key, workspace |-> from_fs_path(key),
     path |-> defaults.path, interpreter |-> defaults.interpreter,
     args |-> defaults.args, ignorePatterns |-> defaults.ignorePatterns]

\* {**setting, "workspaceFS": key}
WithWorkspaceFS(setting, key) ==
    [f \in DOMAIN setting \cup {"workspaceFS"} |->
        IF f = "workspaceFS" THEN key ELSE setting[f]]

SettingKey(setting) == normalize_path(to_fs_path(setting.workspace))

\* nothing is registered for an empty array
_update_workspace_settings_skips_empty(old, settings, defaults, cwd) ==
    LET keys == {SettingKey(settings[i]) : i \in 1..Len(settings)}
        last(k) == CHOOSE i \in 1..Len(settings) :
                      /\ SettingKey(settings[i]) = k
                      /\ \A j \in 1..Len(settings) :
                           SettingKey(settings[j]) = k => j <= i
    IN  [k \in DOMAIN old \cup keys |->
           IF k \in keys THEN WithWorkspaceFS(settings[last(k)], k)
                         ELSE old[k]]

\* WORKSPACE_SETTINGS after _update_workspace_settings(settings), with the
\* global settings `globals` already updated
_update_workspace_settings(old, settings, defaults, cwd) ==
    IF settings = << >>
    THEN LET key == normalize_path(cwd)
         IN  [k \in DOMAIN old \cup {key} |->
                IF k = key THEN DefaultsAt(key, defaults) ELSE old[k]]
    ELSE LET keys == {SettingKey(settings[i]) : i \in 1..Len(settings)}
             last(k) == CHOOSE i \in 1..Len(settings) :
                           /\ SettingKey(settings[i]) = k
                           /\ \A j \in 1..Len(settings) :
                                SettingKey(settings[j]) = k => j <= i
         IN  [k \in DOMAIN old \cup keys |->
                IF k \in keys THEN WithWorkspaceFS(settings[last(k)], k)
                              ELSE old[k]]

None == [found |-> FALSE, key |-> << >>]

\* the filesystem root is tested as well
RECURSIVE WalkUp_to_root(_, _)
WalkUp_to_root(p, workspaces) ==
    IF normalize_path(p) \in workspaces
    THEN [found |-> TRUE, key |-> normalize_path(p)]
    ELSE IF p = Parent(p) THEN None
    ELSE WalkUp_to_root(Parent(p), workspaces)

\* while path != path.parent: the loop ends when it reaches the filesystem
\* root, which it does not test
RECURSIVE WalkUp(_, _)
WalkUp(p, workspaces) ==
    IF p = Parent(p) THEN None
    ELSE IF normalize_path(p) \in workspaces
         THEN [found |-> TRUE, key |-> normalize_path(p)]
         ELSE WalkUp(Parent(p), workspaces)

\* _get_settings_by_path; setting_values is list(WORKSPACE_SETTINGS.values()),
\* whose first element is the entry registered first
_get_settings_by_path(file_path, setting_values) ==
    LET found == WalkUp(file_path,
                        {WORKSPACE_SETTINGS[k].workspaceFS :
                            k \in DOMAIN WORKSPACE_SETTINGS})
    IN  IF found.found
        THEN [raised |-> FALSE, settings |-> WORKSPACE_SETTINGS[found.key]]
        ELSE IF setting_values = << >>
             THEN [raised |-> TRUE, settings |-> << >>]
             ELSE [raised |-> FALSE, settings |-> setting_values[1]]

_get_document_key(document_path) ==
    IF DOMAIN WORKSPACE_SETTINGS # {}
    THEN WalkUp(document_path,
                {WORKSPACE_SETTINGS[k].workspaceFS : k \in DOMAIN WORKSPACE_SETTINGS})
    ELSE None

\* A settings object: its value and the owner of its list objects, which an
\* in-place `+=` on one of the lists writes to.
_get_settings_by_document(document_path) ==
    LET found == _get_document_key(document_path)
    IN  IF ~found.found
        THEN [val |-> DefaultsAt(normalize_path(Parent(document_path)),
                                 _get_global_defaults),
              lists |-> IF "path" \in DOMAIN GLOBAL_SETTINGS
                        THEN "GLOBAL_SETTINGS" ELSE "copy"]
        ELSE [val |-> WORKSPACE_SETTINGS[found.key],
              lists |-> "WORKSPACE_SETTINGS"]

\* a copy that shares the lists of its original
deepcopy_alias(obj) == obj

deepcopy(obj) == [obj EXCEPT !.lists = "copy"]

(***************************************************************************)
(* Execution dispatcher.                                                   *)
(***************************************************************************)
\* the configured directory is not looked at
get_cwd_workspace_only(settings, document_path, has_document) ==
    settings.workspaceFS

get_cwd(settings, document_path, has_document) ==
    IF settings.cwd = WorkspaceFolder THEN settings.workspaceFS
    ELSE IF settings.cwd = FileDirname
         THEN IF has_document THEN Parent(document_path)
                              ELSE settings.workspaceFS
         ELSE settings.cwd

\* the interpreter is looked at before the tool path
Strategy_interpreter_first(settings) ==
    IF /\ settings.interpreter # << >>
       /\ ~is_current_interpreter(settings.interpreter[1])
    THEN "rpc"
    ELSE IF settings.path # << >> THEN "path" ELSE "module"

\* the strategy chosen from the settings: "path", "rpc" or "module"
Strategy(settings) ==
    IF settings.path # << >> THEN "path"
    ELSE IF /\ settings.interpreter # << >>
            /\ ~is_current_interpreter(settings.interpreter[1])
         THEN "rpc"
         ELSE "module"

\* the stdin flag is left out
FileArgs_no_flag(use_stdin, document_path) == <<fspath(document_path)>>

FileArgs(use_stdin, document_path) ==
    IF use_stdin THEN <<"--from-stdin", fspath(document_path)>>
                 ELSE <<fspath(document_path)>>

\* the ignore patterns are not looked at
Skip_without_ignore(uri, settings) ==
    IF uri.scheme = "vscode-notebook-cell" THEN "notebook"
    ELSE IF is_stdlib_file(to_fs_path(uri)) THEN "stdlib"
    ELSE "no"

\* the filters of _run_tool_on_document that return None
Skip(uri, settings) ==
    IF uri.scheme = "vscode-notebook-cell" THEN "notebook"
    ELSE IF is_stdlib_file(to_fs_path(uri)) THEN "stdlib"
    ELSE IF is_match(settings.ignorePatterns, to_fs_path(uri)) THEN "ignored"
    ELSE "no"

\* _run_tool_on_document up to the call of the strategy.  `skip` is the
\* filter that returned None; `written` is the owner of the list that the
\* in-place `argv +=` extended.
_run_tool_on_document(uri, use_stdin, extra_args) ==
    LET document_path == to_fs_path(uri)
        obj == deepcopy(_get_settings_by_document(document_path))
        settings == obj.val
        strategy == Strategy(settings)
        argv0 == IF strategy = "path" THEN settings.path ELSE <<TOOL_MODULE>>
        argv == argv0 \o TOOL_ARGS \o settings.args \o extra_args
                      \o FileArgs(use_stdin, document_path)
    IN  [skip |-> Skip(uri, settings), strategy |-> strategy, argv |-> argv,
         cwd |-> get_cwd(settings, document_path, TRUE),
         use_stdin |-> use_stdin,
         code_workspace |-> settings.workspaceFS,
         interpreter |-> settings.interpreter,
         written |-> IF strategy = "path" THEN obj.lists ELSE "copy"]

\* _run_tool up to the call of the strategy
_run_tool(extra_args, obj) ==
    LET settings == obj.val
        strategy == Strategy(settings)
        argv0 == IF strategy = "path" THEN settings.path ELSE <<TOOL_MODULE>>
    IN  [strategy |-> strategy, argv |-> argv0 \o extra_args,
         cwd |-> get_cwd(settings, << >>, FALSE), use_stdin |-> TRUE,
         code_workspace |-> settings.workspaceFS,
         written |-> IF strategy = "path" THEN obj.lists ELSE "copy"]

\* major and minor are compared each on its own
AtLeast_componentwise(version, min) ==
    version[1] >= min[1] /\ version[2] >= min[2]

\* lexicographic (major, minor) >= (2, 16)
AtLeast(version, min) ==
    \/ version[1] > min[1]
    \/ version[1] = min[1] /\ version[2] >= min[2]

ExtraArgs(document_path) ==
    LET code_workspace == _get_settings_by_document(document_path).val.workspaceFS
    IN  IF /\ code_workspace \in DOMAIN VERSION_TABLE
           /\ AtLeast(VERSION_TABLE[code_workspace], CLEAR_CACHE_MIN)
        THEN <<"--clear-cache-post-run=y">>
        ELSE << >>


(***************************************************************************)
(* initialize: settings ingestion and the version probe of every           *)
(* workspace.                                                              *)
(***************************************************************************)
\* dict.update(**other)
Update(d, other) ==
    [k \in DOMAIN d \cup DOMAIN other |->
        IF k \in DOMAIN other THEN other[k] ELSE d[k]]

ProbeRun(value) ==
    _run_tool(<<"--version">>,
              deepcopy([val |-> value, lists |-> "WORKSPACE_SETTINGS"]))

\* a child is started for the interpreter whatever children there are
get_or_start_json_rpc_always(children, interpreter) ==
    Append(children, interpreter)

\* the child of the interpreter is started on its first use and reused after
get_or_start_json_rpc(children, interpreter) ==
    IF \E i \in DOMAIN children : children[i] = interpreter
    THEN children
    ELSE Append(children, interpreter)

\* the delegate children once every probe of the workspaces `keys` has run;
\* the order in which the workspaces are probed does not show in the result
\* beyond the order of the children
RECURSIVE ProbeChildren(_, _, _)
ProbeChildren(children, ws, keys) ==
    IF keys = {} THEN children
    ELSE LET k == CHOOSE k \in keys : TRUE
         IN  ProbeChildren(IF ProbeRun(ws[k]).strategy = "rpc"
                           THEN get_or_start_json_rpc(children, ws[k].interpreter)
                           ELSE children,
                           ws, keys \ {k})

\* the registered settings once every probe has run
AfterProbes(ws) ==
    [k \in DOMAIN ws |->
        IF ProbeRun(ws[k]).written = "WORKSPACE_SETTINGS"
        THEN [ws[k] EXCEPT !.path = ProbeRun(ws[k]).argv]
        ELSE ws[k]]

\* a version older than MIN_VERSION is not recorded
_log_version_info_supported_only(ws, output) ==
    LET result(k) == Get(output, ws[k].workspaceFS, NoVersion)
        version(k) == result(k).stdout[1][2]
        AtLeastMin(v) == \/ v[1] > MIN_VERSION[1]
                         \/ v[1] = MIN_VERSION[1] /\ v[2] > MIN_VERSION[2]
                         \/ /\ v[1] = MIN_VERSION[1] /\ v[2] = MIN_VERSION[2]
                            /\ v[3] >= MIN_VERSION[3]
        probed == {k \in DOMAIN ws :
                     /\ ~result(k).raised
                     /\ Len(result(k).stdout) > 0
                     /\ Len(result(k).stdout[1]) > 1
                     /\ Len(version(k)) = 3
                     /\ AtLeastMin(version(k))}
    IN  [c \in {ws[k].workspaceFS : k \in probed} |->
            LET k == CHOOSE k \in probed : ws[k].workspaceFS = c
            IN  version(k)]

\* _log_version_info: the versions read from the first line of each output.
\* A pass of the loop whose run raised, whose output has no first line,
\* whose first line has no second word or whose second word is not a
\* version ends in the except clause and records nothing.
_log_version_info(ws, output) ==
    LET result(k) == Get(output, ws[k].workspaceFS, NoVersion)
        version(k) == result(k).stdout[1][2]
        probed == {k \in DOMAIN ws :
                     /\ ~result(k).raised
                     /\ Len(result(k).stdout) > 0
                     /\ Len(result(k).stdout[1]) > 1
                     /\ Len(version(k)) = 3}
    IN  [c \in {ws[k].workspaceFS : k \in probed} |->
            LET k == CHOOSE k \in probed : ws[k].workspaceFS = c
            IN  version(k)]

initialize(params) ==
    /\ request = << >>
    /\ \A w \in Workers : workers[w].pc = "idle"
    /\ request' = params
    /\ GLOBAL_SETTINGS' = Update(GLOBAL_SETTINGS, params.globalSettings)
    /\ LET ws == _update_workspace_settings(WORKSPACE_SETTINGS, params.settings,
                                            GlobalDefaults(GLOBAL_SETTINGS'),
                                            proc.cwd)
       IN  /\ WORKSPACE_SETTINGS' = AfterProbes(ws)
           /\ VERSION_TABLE' =
                Update(VERSION_TABLE, _log_version_info(ws, params.version))
           /\ jsonrpc' = [jsonrpc EXCEPT
                            !.children = ProbeChildren(@, ws, DOMAIN ws)]
    /\ UNCHANGED <<pending, reply, lint_on_change, docs, workers, proc, CWD_LOCK, published,
                   notes>>


(***************************************************************************)
(* The in-process strategy's substitutions of process-wide state.          *)
(***************************************************************************)
\* utils.substitute_attr(sys, "path", [""] + sys.path[:])
substitute_attr_enter(p, new_value) == [p EXCEPT !.path = new_value]

substitute_attr_exit(p, old_value) == [p EXCEPT !.path = old_value]

change_cwd_enter(p, new_cwd) == [p EXCEPT !.cwd = new_cwd]

change_cwd_exit(p, old_cwd) == [p EXCEPT !.cwd = old_cwd]

SubstituteSysArgv__enter__(p, new_args) == [p EXCEPT !.argv = new_args]

\* sys.argv is left as the run set it
SubstituteSysArgv__exit__forgets(p, original_argv) == p

SubstituteSysArgv__exit__(p, original_argv) == [p EXCEPT !.argv = original_argv]

RedirectIO__enter__(p, stream, new_target) == [p EXCEPT ![stream] = new_target]

RedirectIO__exit__(p, stream, old_target) == [p EXCEPT ![stream] = old_target]

\* `if use_stdin and source` of run_module
FeedsStdin(use_stdin, source) == use_stdin /\ source # ""

\* the with-statement of run_module entered by worker w
run_module_install(p, w, argv, use_stdin, source) ==
    LET p1 == SubstituteSysArgv__enter__(p, argv)
        p2 == RedirectIO__enter__(p1, "stdout", Stream(w, "stdout"))
        p3 == RedirectIO__enter__(p2, "stderr", Stream(w, "stderr"))
    IN  IF FeedsStdin(use_stdin, source)
        THEN RedirectIO__enter__(p3, "stdin", Stream(w, "stdin"))
        ELSE p3

\* nothing is restored when the tool raised
run_module_restore_unless_raised(p, saved, use_stdin, source, outcome) ==
    IF outcome = "exception" THEN p
    ELSE SubstituteSysArgv__exit__(
           RedirectIO__exit__(
             RedirectIO__exit__(
               IF FeedsStdin(use_stdin, source)
               THEN RedirectIO__exit__(p, "stdin", saved.stdin) ELSE p,
               "stderr", saved.stderr),
             "stdout", saved.stdout),
           saved.argv)

\* the with-statement of run_module left, whatever the tool's outcome was:
\* "return", "SystemExit" or "exception"
run_module_restore(p, saved, use_stdin, source, outcome) ==
    LET p1 == IF FeedsStdin(use_stdin, source)
              THEN RedirectIO__exit__(p, "stdin", saved.stdin)
              ELSE p
        p2 == RedirectIO__exit__(p1, "stderr", saved.stderr)
        p3 == RedirectIO__exit__(p2, "stdout", saved.stdout)
    IN  SubstituteSysArgv__exit__(p3, saved.argv)

\* CWD_LOCK can be acquired
LockFree == CWD_LOCK = 0

(***************************************************************************)
(* Output parser.  The raw output is the array it decodes to ("json"), the *)
(* empty string ("empty") or a text json.loads rejects ("garbage").        *)
(***************************************************************************)
Json(findings) == [kind |-> "json", findings |-> findings]
NoOutput == [kind |-> "empty", findings |-> << >>]
Garbage == [kind |-> "garbage", findings |-> << >>]

TOOL_DISPLAY == "Pylint"
line_offset == 1

\* the member names of lsp.DiagnosticSeverity
DiagnosticSeverity == {"Error", "Warning", "Information", "Hint"}

\* the severity map of _get_global_defaults
DefaultSeverity ==
    [convention |-> "Information", error |-> "Error", fatal |-> "Error",
     refactor |-> "Hint", warning |-> "Warning", info |-> "Information"]

\* severity.get(symbol, None) or severity.get(code, None)
\*   or severity.get(code_type, "Error"): `or` skips a value that is empty
SeverityValue(symbol, code, code_type, severity) ==
    IF symbol \in DOMAIN severity /\ severity[symbol] # ""
    THEN severity[symbol]
    ELSE IF code \in DOMAIN severity /\ severity[code] # ""
         THEN severity[code]
         ELSE Get(severity, code_type, "Error")

\* the value is not looked up among the levels
_get_severity_unchecked(symbol, code, code_type, severity) ==
    SeverityValue(symbol, code, code_type, severity)

_get_severity(symbol, code, code_type, severity) ==
    LET value == SeverityValue(symbol, code, code_type, severity)
    IN  IF value \in DiagnosticSeverity THEN value ELSE "Error"

\* int(data.get(key)) raises when the key is missing or null
IntRaises(data, key) == key \notin DOMAIN data \/ data[key] = Null

HasEndLine(data) == "endLine" \in DOMAIN data /\ data.endLine # Null

\* a null endColumn is taken as it is
RecordRaises_start_only(data) ==
    \/ IntRaises(data, "line")
    \/ IntRaises(data, "column")

\* building the diagnostic of one record raises
RecordRaises(data) ==
    \/ IntRaises(data, "line")
    \/ IntRaises(data, "column")
    \/ /\ HasEndLine(data)
       /\ "endColumn" \in DOMAIN data
       /\ data.endColumn = Null

\* a column offset of one
Position_shifted(line, character) ==
    [line |-> line, character |-> character + 1]

Position(line, character) == [line |-> line, character |-> character]

\* the symbolic name is left out
DiagnosticCode_id_only(data) == data["message-id"]

DiagnosticCode(data) == data["message-id"] \o ":" \o data.symbol

\* the lsp.Diagnostic of one record (without its documentation link)
Diagnostic(data, severity) ==
    LET start == Position(data.line - line_offset, data.column)
        end == IF HasEndLine(data)
               THEN Position(data.endLine - line_offset,
                             Get(data, "endColumn", 0))
               ELSE start
    IN  [range |-> [start |-> start, end |-> end],
         message |-> data.message,
         severity |-> _get_severity(data.symbol, data["message-id"],
                                    data.type, severity),
         code |-> DiagnosticCode(data),
         source |-> TOOL_DISPLAY]

\* the records before the first broken one are returned
_parse_output_partial(content, severity) ==
    LET good == {n \in 0..Len(content.findings) :
                    \A i \in 1..n : ~RecordRaises(content.findings[i])}
        last == CHOOSE n \in good : \A m \in good : m <= n
    IN  [raised |-> FALSE,
         diagnostics |-> [i \in 1..last |->
                            Diagnostic(content.findings[i], severity)]]

\* _parse_output: the diagnostics, or `raised` when json.loads or the
\* conversion of a record raises
_parse_output(content, severity) ==
    IF content.kind # "json"
    THEN [raised |-> TRUE, diagnostics |-> << >>]
    ELSE IF \E i \in 1..Len(content.findings) :
                RecordRaises(content.findings[i])
         THEN [raised |-> TRUE, diagnostics |-> << >>]
         ELSE [raised |-> FALSE,
               diagnostics |-> [i \in 1..Len(content.findings) |->
                                  Diagnostic(content.findings[i], severity)]]

(***************************************************************************)
(* Results and diagnostics.                                                *)
(***************************************************************************)

\* what the buffer of a run holds: the outputs written into it
Captured(writes) ==
    IF writes = {} THEN NoOutput
    ELSE IF Cardinality(writes) = 1
         THEN Json(Findings((CHOOSE e \in writes : TRUE).source))
         ELSE Garbage

\* an exception of the strategy is not caught
_linting_helper_unguarded(document_path, raised, stdout) ==
    _parse_output(stdout, DefaultSeverity).diagnostics

\* _linting_helper once the strategy has returned `stdout` or raised
_linting_helper(document_path, raised, stdout) ==
    IF raised \/ stdout.kind = "empty"
    THEN << >>
    ELSE LET settings == deepcopy(_get_settings_by_document(document_path)).val
             parsed == _parse_output(stdout,
                                     Get(settings, "severity", DefaultSeverity))
         IN  IF parsed.raised THEN << >> ELSE parsed.diagnostics

Publication(by, diagnostics, version, current, closed, outcome, last) ==
    [by |-> by, diagnostics |-> diagnostics, version |-> version,
     current |-> current, closed |-> closed, outcome |-> outcome,
     before |-> last.diagnostics, prior |-> last.outcome]

(***************************************************************************)
(* Document-lifecycle handlers.                                            *)
(***************************************************************************)
Busy == {w \in Workers : workers[w].pc # "idle"}

\* the pool hands the handler to its first idle worker
FreeWorker == CHOOSE w \in Workers \ Busy : \A v \in Workers \ Busy : w <= v

\* the client sends no document notification after shutdown or exit
Accepting ==
    /\ request # << >>
    /\ reply = NoCall
    /\ notes < MaxNotifications

PoolHasRoom == Workers \ Busy # {} /\ Cardinality(Busy) < MAX_WORKERS

\* did_open, did_save and did_change: _linting_helper up to the point where
\* the strategy blocks, or the whole handler when the run is filtered out
LintHandler(kind, uri, document) ==
    LET run == _run_tool_on_document(uri, TRUE, ExtraArgs(to_fs_path(uri)))
        w == FreeWorker
        started == [IdleWorker EXCEPT
                      !.pc = CASE run.strategy = "path" -> "run_path"
                               [] run.strategy = "rpc" -> "run_rpc"
                               [] OTHER -> "lock_wait",
                      !.uri = uri, !.kind = kind, !.strategy = run.strategy,
                      !.argv = run.argv, !.cwd = run.cwd,
                      !.use_stdin = run.use_stdin,
                      !.source = document.source,
                      !.version = document.version,
                      !.interpreter = run.interpreter,
                      !.saved = [ServerProc EXCEPT !.path = proc.path]]
    IN  IF run.skip # "no"
        THEN /\ published' = [published EXCEPT
                    ![uri] = Publication(kind,
                                         _linting_helper(to_fs_path(uri), FALSE,
                                                         NoOutput),
                                         document.version, TRUE, FALSE, "none",
                                         published[uri])]
             /\ UNCHANGED <<workers, proc, WORKSPACE_SETTINGS, GLOBAL_SETTINGS,
                            jsonrpc>>
        ELSE /\ workers' = [workers EXCEPT ![w] = started]
             /\ proc' = IF run.strategy = "module"
                        THEN substitute_attr_enter(proc, <<"">> \o proc.path)
                        ELSE proc
             /\ WORKSPACE_SETTINGS' =
                  IF run.written = "WORKSPACE_SETTINGS"
                  THEN [WORKSPACE_SETTINGS EXCEPT
                          ![run.code_workspace].path = run.argv]
                  ELSE WORKSPACE_SETTINGS
             /\ GLOBAL_SETTINGS' =
                  IF run.written = "GLOBAL_SETTINGS"
                  THEN [GLOBAL_SETTINGS EXCEPT !.path = run.argv]
                  ELSE GLOBAL_SETTINGS
             /\ jsonrpc' =
                  IF run.strategy = "rpc"
                  THEN [jsonrpc EXCEPT
                          !.children = get_or_start_json_rpc(@, run.interpreter)]
                  ELSE jsonrpc
             /\ UNCHANGED published

did_open(uri, text) ==
    /\ Accepting /\ PoolHasRoom
    /\ ~docs[uri].open
    /\ notes' = notes + 1
    /\ docs' = [docs EXCEPT ![uri] = [open |-> TRUE, version |-> 1,
                                      source |-> text]]
    /\ LintHandler("open", uri, docs'[uri])
    /\ UNCHANGED <<pending, reply, lint_on_change, request, VERSION_TABLE, CWD_LOCK>>

\* the handler drops the version records
did_save_forgets(uri) ==
    /\ Accepting /\ PoolHasRoom
    /\ docs[uri].open
    /\ notes' = notes + 1
    /\ LintHandler("save", uri, docs[uri])
    /\ VERSION_TABLE' = << >>
    /\ UNCHANGED <<pending, reply, lint_on_change, request, CWD_LOCK, docs>>

did_save(uri) ==
    /\ Accepting /\ PoolHasRoom
    /\ docs[uri].open
    /\ notes' = notes + 1
    /\ LintHandler("save", uri, docs[uri])
    /\ UNCHANGED <<pending, reply, lint_on_change, request, VERSION_TABLE, CWD_LOCK, docs>>

\* the handler is registered whatever the environment holds
did_change_registered(uri, text) ==
    /\ Accepting /\ PoolHasRoom
    /\ docs[uri].open
    /\ notes' = notes + 1
    /\ docs' = [docs EXCEPT ![uri].version = @ + 1, ![uri].source = text]
    /\ LintHandler("change", uri, docs'[uri])
    /\ UNCHANGED <<pending, reply, lint_on_change, request, VERSION_TABLE, CWD_LOCK>>

\* the workspace applies the change; the handler is registered only when
\* VSCODE_PYLINT_LINT_ON_CHANGE is set
did_change(uri, text) ==
    /\ Accepting
    /\ docs[uri].open
    /\ notes' = notes + 1
    /\ docs' = [docs EXCEPT ![uri].version = @ + 1, ![uri].source = text]
    /\ IF lint_on_change
       THEN PoolHasRoom /\ LintHandler("change", uri, docs'[uri])
       ELSE UNCHANGED <<workers, proc, WORKSPACE_SETTINGS, GLOBAL_SETTINGS,
                        published, jsonrpc>>
    /\ UNCHANGED <<pending, reply, lint_on_change, request, VERSION_TABLE, CWD_LOCK>>

\* the document is dropped and nothing is published
did_close_silent(uri) ==
    /\ Accepting
    /\ docs[uri].open
    /\ notes' = notes + 1
    /\ docs' = [docs EXCEPT ![uri] = NoDocument]
    /\ UNCHANGED <<jsonrpc, pending, reply, lint_on_change, request, WORKSPACE_SETTINGS, GLOBAL_SETTINGS,
                   VERSION_TABLE, workers, proc, CWD_LOCK, published>>

did_close(uri) ==
    /\ Accepting
    /\ docs[uri].open
    /\ notes' = notes + 1
    /\ docs' = [docs EXCEPT ![uri] = NoDocument]
    /\ published' = [published EXCEPT
            ![uri] = Publication("close", << >>, docs[uri].version, TRUE, FALSE,
                                 "none", published[uri])]
    /\ workers' = [w \in Workers |->
            IF workers[w].pc # "idle" /\ workers[w].uri = uri
            THEN [workers[w] EXCEPT !.closed = TRUE]
            ELSE workers[w]]
    /\ UNCHANGED <<jsonrpc, pending, reply, lint_on_change, request, WORKSPACE_SETTINGS, GLOBAL_SETTINGS,
                   VERSION_TABLE, proc, CWD_LOCK>>

\* the handler of worker w publishes and ends
Publish(w, outcome, raised, stdout) ==
    /\ published' = [published EXCEPT
            ![workers[w].uri] =
                Publication(workers[w].kind,
                            _linting_helper(to_fs_path(workers[w].uri), raised,
                                            stdout),
                            workers[w].version,
                            /\ docs[workers[w].uri].open
                            /\ docs[workers[w].uri].version = workers[w].version,
                            workers[w].closed, outcome,
                            published[workers[w].uri])]
    /\ workers' = [workers EXCEPT ![w] = IdleWorker]

\* utils.run_path returns: the child has exited with its report ("ok"), with
\* a report whose last record is broken ("malformed") or with a text that is
\* not JSON ("garbage"), or it could not be started ("error")
run_path_done(w, outcome) ==
    /\ workers[w].pc = "run_path"
    /\ Publish(w, outcome, outcome = "error",
               CASE outcome = "malformed" ->
                        Json(Findings(workers[w].source) \o <<BadRecord>>)
                 [] outcome = "garbage" -> Garbage
                 [] OTHER -> Json(Findings(workers[w].source)))
    /\ UNCHANGED <<jsonrpc, pending, reply, lint_on_change, request, WORKSPACE_SETTINGS, GLOBAL_SETTINGS,
                   VERSION_TABLE, docs, proc, CWD_LOCK, notes>>

\* the unanswered requests written to the channel of an interpreter
Outstanding(interpreter) ==
    SelectSeq(jsonrpc.requests, LAMBDA r : r.interpreter = interpreter)

\* a request is written whatever the channel is waiting for
ChannelFree_pipelined(interpreter) == TRUE

\* the channel has answered every request written to it
ChannelFree(interpreter) == Outstanding(interpreter) = << >>

\* worker w has written its request and waits for the response
Sent(w) == \E i \in DOMAIN jsonrpc.requests : jsonrpc.requests[i].worker = w

\* jsonrpc.run_over_json_rpc writes the run request of worker w to the
\* channel of its interpreter
run_rpc_send(w) ==
    /\ workers[w].pc = "run_rpc"
    /\ ~Sent(w)
    /\ ChannelFree(workers[w].interpreter)
    /\ jsonrpc' = [jsonrpc EXCEPT
            !.requests = Append(@, [interpreter |-> workers[w].interpreter,
                                    worker |-> w,
                                    source |-> workers[w].source])]
    /\ UNCHANGED <<pending, reply, lint_on_change, request, WORKSPACE_SETTINGS,
                   GLOBAL_SETTINGS, VERSION_TABLE, docs, workers, proc,
                   CWD_LOCK, published, notes>>

\* the requests left when the channel of the interpreter has answered its
\* oldest request
RECURSIVE Answered(_, _)
Answered(requests, interpreter) ==
    IF requests = << >> THEN << >>
    ELSE IF Head(requests).interpreter = interpreter THEN Tail(requests)
    ELSE <<Head(requests)>> \o Answered(Tail(requests), interpreter)

\* jsonrpc.run_over_json_rpc returns to worker w the next message of the
\* channel, a result ("ok") or an exception text: the child answers the
\* requests of its channel in the order they were written
run_rpc_done(w, outcome) ==
    /\ workers[w].pc = "run_rpc"
    /\ Sent(w)
    /\ outcome = "ok" => \E i \in DOMAIN jsonrpc.children :
                            jsonrpc.children[i] = workers[w].interpreter
    /\ Publish(w, outcome, FALSE,
               IF outcome = "ok"
               THEN Json(Findings(Head(Outstanding(workers[w].interpreter)).source))
               ELSE NoOutput)
    /\ jsonrpc' = [jsonrpc EXCEPT
            !.requests = Answered(@, workers[w].interpreter)]
    /\ UNCHANGED <<pending, reply, lint_on_change, request, WORKSPACE_SETTINGS, GLOBAL_SETTINGS,
                   VERSION_TABLE, docs, proc, CWD_LOCK, notes>>

\* run_module: the lock is taken, the directory changed, argv and the
\* streams substituted, and the tool starts
run_module_enter(w) ==
    /\ workers[w].pc = "lock_wait"
    /\ LockFree
    /\ CWD_LOCK' = w
    /\ proc' = run_module_install(change_cwd_enter(proc, workers[w].cwd), w,
                                  workers[w].argv, workers[w].use_stdin,
                                  workers[w].source)
    /\ workers' = [workers EXCEPT
            ![w].pc = "in_tool",
            ![w].saved = [proc EXCEPT !.path = workers[w].saved.path],
            ![w].seen = {proc'.cwd}]
    /\ UNCHANGED <<jsonrpc, pending, reply, lint_on_change, request, WORKSPACE_SETTINGS, GLOBAL_SETTINGS,
                   VERSION_TABLE, docs, published, notes>>

\* the tool writes its report to sys.stdout and ends
tool_exit(w, outcome) ==
    /\ workers[w].pc = "in_tool"
    /\ workers' = [v \in Workers |->
            LET me == IF v = w
                      THEN [workers[v] EXCEPT
                              !.pc = "tool_done", !.outcome = outcome,
                              !.seen = @ \cup {proc.cwd}]
                      ELSE workers[v]
            IN  IF proc.stdout.owner = v
                THEN [me EXCEPT !.out = @ \cup {[by |-> w,
                                                source |-> workers[w].source]}]
                ELSE me]
    /\ UNCHANGED <<jsonrpc, pending, reply, lint_on_change, request, WORKSPACE_SETTINGS, GLOBAL_SETTINGS,
                   VERSION_TABLE, docs, proc, CWD_LOCK, published, notes>>

\* run_module and the substitution of sys.path are left; the handler
\* publishes
run_module_exit(w) ==
    /\ workers[w].pc = "tool_done"
    /\ proc' = substitute_attr_exit(
                 change_cwd_exit(
                   run_module_restore(proc, workers[w].saved,
                                      workers[w].use_stdin, workers[w].source,
                                      workers[w].outcome),
                   workers[w].saved.cwd),
                 workers[w].saved.path)
    /\ CWD_LOCK' = 0
    /\ Publish(w, workers[w].outcome, workers[w].outcome = "exception",
               Captured(workers[w].out))
    /\ UNCHANGED <<jsonrpc, pending, reply, lint_on_change, request, WORKSPACE_SETTINGS, GLOBAL_SETTINGS,
                   VERSION_TABLE, docs, notes>>

\* only the first child is stopped
shutdown_json_rpc_first(children) ==
    [raised |-> FALSE,
     children |-> IF children = << >> THEN << >> ELSE Tail(children)]

\* jsonrpc.shutdown_json_rpc: every child is stopped and forgotten; with no
\* child there is nothing to stop
shutdown_json_rpc(children) ==
    [raised |-> FALSE, children |-> << >>]

\* on_exit and on_shutdown.  The reply records the handler that ran last,
\* the one that ran first, the calls made so far and the children they
\* stopped.
TearDown(method) ==
    LET result == shutdown_json_rpc(jsonrpc.children)
    IN  /\ request # << >>
        /\ notes < MaxNotifications
        /\ notes' = notes + 1
        /\ jsonrpc' = [jsonrpc EXCEPT !.children = result.children]
        /\ reply' = [method |-> method, raised |-> result.raised,
                     first |-> Get(reply, "first", method),
                     calls |-> Get(reply, "calls", 0) + 1,
                     stopped |-> Get(reply, "stopped", 0)
                                   + Len(jsonrpc.children)
                                   - Len(result.children)]
        /\ UNCHANGED <<pending, lint_on_change, request, WORKSPACE_SETTINGS,
                       GLOBAL_SETTINGS, VERSION_TABLE, docs, workers, proc,
                       CWD_LOCK, published>>

on_exit == TearDown("exit")

on_shutdown == TearDown("shutdown")

Next ==
    \/ \E params \in InitOptions : initialize(params)
    \/ on_shutdown
    \/ on_exit
    \/ \E uri \in URIs, text \in Texts : did_open(uri, text)
    \/ \E uri \in URIs : did_save(uri)
    \/ \E uri \in URIs, text \in Texts : did_change(uri, text)
    \/ \E uri \in URIs : did_close(uri)
    \/ \E w \in Workers, outcome \in {"ok", "error", "malformed", "garbage"} :
          run_path_done(w, outcome)
    \/ \E w \in Workers : run_rpc_send(w)
    \/ \E w \in Workers, outcome \in {"ok", "transport"} : run_rpc_done(w, outcome)
    \/ \E w \in Workers : run_module_enter(w)
    \/ \E w \in Workers, outcome \in {"return", "SystemExit", "exception"} :
          tool_exit(w, outcome)
    \/ \E w \in Workers : run_module_exit(w)

Spec == Init /\ [][Next]_vars


(***************************************************************************)
(* Quick fixes.                                                            *)
(***************************************************************************)
\* A line is a sequence of characters.  A regular expression is one
\* character ("lit"), a character of a class, a sequence, an alternation,
\* a greedy repetition ("plus", "star") or a numbered group.
\* Match is the first match, in the order a backtracking matcher tries
\* them, of the expressions rs one after the other from position i of s.
RECURSIVE Match(_, _, _, _)
Match(rs, s, i, g) ==
    IF rs = << >> THEN [ok |-> TRUE, i |-> i, g |-> g]
    ELSE LET r == Head(rs)
             k == Tail(rs)
             NoMatch == [ok |-> FALSE, i |-> i, g |-> g]
         IN  CASE r.op = "lit" ->
                    IF i <= Len(s) /\ s[i] = r.c
                    THEN Match(k, s, i + 1, g) ELSE NoMatch
               [] r.op = "class" ->
                    IF i <= Len(s) /\ s[i] \in r.S
                    THEN Match(k, s, i + 1, g) ELSE NoMatch
               [] r.op = "seq" -> Match(r.rs \o k, s, i, g)
               [] r.op = "alt" ->
                    IF r.rs = << >> THEN NoMatch
                    ELSE LET first == Match(<<Head(r.rs)>> \o k, s, i, g)
                         IN  IF first.ok THEN first
                             ELSE Match(<<[op |-> "alt", rs |-> Tail(r.rs)]>>
                                           \o k, s, i, g)
               [] r.op = "plus" ->
                    Match(<<r.r, [op |-> "star", r |-> r.r]>> \o k, s, i, g)
               [] r.op = "star" ->
                    LET more == Match(<<r.r, r>> \o k, s, i, g)
                    IN  IF more.ok THEN more ELSE Match(k, s, i, g)
               [] r.op = "group" ->
                    Match(<<r.r, [op |-> "close", n |-> r.n, from |-> i]>> \o k,
                          s, i, g)
               [] r.op = "close" ->
                    Match(k, s, i, [g EXCEPT ![r.n] = SubSeq(s, r.from, i - 1)])

\* the replacement template with its group references filled in
RECURSIVE Expand(_, _)
Expand(repl, g) ==
    IF repl = << >> THEN << >>
    ELSE (IF "group" \in DOMAIN Head(repl) THEN g[Head(repl).group]
                                           ELSE Head(repl).chars)
         \o Expand(Tail(repl), g)

\* the text behind the last match is lost
RECURSIVE Sub_to_last_match(_, _, _, _)
Sub_to_last_match(pattern, repl, s, i) ==
    IF i > Len(s) THEN << >>
    ELSE LET m == Match(<<pattern>>, s, i, [n \in 1..3 |-> << >>])
         IN  IF m.ok /\ m.i > i
             THEN Expand(repl, m.g) \o Sub_to_last_match(pattern, repl, s, m.i)
             ELSE IF \E j \in (i + 1)..Len(s) :
                        Match(<<pattern>>, s, j, [n \in 1..3 |-> << >>]).ok
                  THEN <<s[i]>> \o Sub_to_last_match(pattern, repl, s, i + 1)
                  ELSE << >>

\* re.sub(pattern, repl, s) from position i on: leftmost matches that do not
\* overlap are replaced, everything else is kept
RECURSIVE Sub(_, _, _, _)
Sub(pattern, repl, s, i) ==
    IF i > Len(s) THEN << >>
    ELSE LET m == Match(<<pattern>>, s, i, [n \in 1..3 |-> << >>])
         IN  IF m.ok /\ m.i > i
             THEN Expand(repl, m.g) \o Sub(pattern, repl, s, m.i)
             ELSE <<s[i]>> \o Sub(pattern, repl, s, i + 1)

REPLACEMENTS ==
    LET Word ==
            {"a", "b", "c", "d", "e", "f", "g", "h", "i", "j", "k", "l", "m", "n",
            "o", "p", "q", "r", "s", "t", "u", "v", "w", "x", "y", "z", "A", "B",
            "C", "D", "E", "F", "G", "H", "I", "J", "K", "L", "M", "N", "O", "P",
            "Q", "R", "S", "T", "U", "V", "W", "X", "Y", "Z", "0", "1", "2", "3",
            "4", "5", "6", "7", "8", "9", "_"}
        Space == {" ", "\t", "\n"}
        Lit(c) == [op |-> "lit", c |-> c]
        Class(chars) == [op |-> "class", S |-> chars]
        Concat(rs) == [op |-> "seq", rs |-> rs]
        Alt(rs) == [op |-> "alt", rs |-> rs]
        Plus(r) == [op |-> "plus", r |-> r]
        Star(r) == [op |-> "star", r |-> r]
        Group(n, r) == [op |-> "group", n |-> n, r |-> r]
        Chars(cs) == Concat([i \in 1..Len(cs) |-> Lit(cs[i])])
        WordRun == Plus(Class(Word))
        SpaceRun == Plus(Class(Space))
        Ref(n) == [group |-> n]
        Txt(cs) == [chars |-> cs]
    IN
    [code \in {"C0117:unnecessary-negation", "C0121:singleton-comparison",
               "C0123:unidiomatic-typecheck",
               "R0205:useless-object-inheritance",
               "R1721:unnecessary-comprehension",
               "E1141:dict-iter-missing-items"} |->
        CASE code = "C0117:unnecessary-negation" ->
               <<[pattern |-> Concat(<<Class(Space), Chars(<<"n", "o", "t">>), SpaceRun, Chars(<<"n", "o", "t">>)>>),
                  repl |-> << >>]>>
          [] code = "C0121:singleton-comparison" ->
               <<[pattern |->
                    Alt(<<Concat(<<Group(1, WordRun), SpaceRun,
                                 Alt(<<Concat(<<Chars(<<"=", "=">>), SpaceRun, Chars(<<"T", "r", "u", "e">>)>>),
                                       Concat(<<Chars(<<"!", "=">>), SpaceRun, Chars(<<"F", "a", "l", "s", "e">>)>>)>>)>>),
                          Concat(<<Alt(<<Concat(<<Chars(<<"T", "r", "u", "e">>), SpaceRun, Chars(<<"=", "=">>)>>),
                                       Concat(<<Chars(<<"F", "a", "l", "s", "e">>), SpaceRun, Chars(<<"!", "=">>)>>)>>),
                                 SpaceRun, Group(2, WordRun)>>)>>),
                  repl |-> <<Ref(1), Ref(2)>>],
                 [pattern |->
                    Alt(<<Concat(<<Group(1, WordRun), SpaceRun,
                                 Alt(<<Concat(<<Chars(<<"!", "=">>), SpaceRun, Chars(<<"T", "r", "u", "e">>)>>),
                                       Concat(<<Chars(<<"=", "=">>), SpaceRun, Chars(<<"F", "a", "l", "s", "e">>)>>)>>)>>),
                          Concat(<<Alt(<<Concat(<<Chars(<<"T", "r", "u", "e">>), SpaceRun, Chars(<<"!", "=">>)>>),
                                       Concat(<<Chars(<<"F", "a", "l", "s", "e">>), SpaceRun, Chars(<<"=", "=">>)>>)>>),
                                 SpaceRun, Group(2, WordRun)>>)>>),
                  repl |-> <<Txt(<<"n", "o", "t", " ">>), Ref(1), Ref(2)>>]>>
          [] code = "C0123:unidiomatic-typecheck" ->
               <<[pattern |-> Concat(<<Chars(<<"t", "y", "p", "e", "(">>), Group(1, WordRun), Chars(<<")">>), SpaceRun,
                                     Chars(<<"i", "s">>), SpaceRun, Group(2, WordRun)>>),
                  repl |-> <<Txt(<<"i", "s", "i", "n", "s", "t", "a", "n", "c", "e", "(">>), Ref(1), Txt(<<",", " ">>), Ref(2),
                             Txt(<<")">>)>>]>>
          [] code = "R0205:useless-object-inheritance" ->
               <<[pattern |-> Concat(<<Chars(<<"c", "l", "a", "s", "s", " ">>), Group(1, WordRun),
                                     Chars(<<"(", "o", "b", "j", "e", "c", "t", ")", ":">>)>>),
                  repl |-> <<Txt(<<"c", "l", "a", "s", "s", " ">>), Ref(1), Txt(<<":">>)>>]>>
          [] code = "R1721:unnecessary-comprehension" ->
               <<[pattern |->
                    Concat(<<Chars(<<"{">>),
                           Group(1, Plus(Class(Word \cup Space \cup {","}))),
                           Chars(<<" ", "f", "o", "r", " ">>),
                           Plus(Class(Word \cup Space \cup {","})),
                           Chars(<<" ", "i", "n", " ">>),
                           Group(2, Plus(Class(Word \cup Space \cup {","}))),
                           Chars(<<"}">>)>>),
                  repl |-> <<Txt(<<"s", "e", "t", "(">>), Ref(2), Txt(<<")">>)>>]>>
          [] OTHER ->
               <<[pattern |-> Concat(<<Chars(<<"f", "o", "r">>), SpaceRun, Group(1, WordRun), Chars(<<",">>), SpaceRun,
                                     Group(2, WordRun), SpaceRun, Chars(<<"i", "n">>), SpaceRun, Group(3, WordRun),
                                     Star(Class(Space)), Chars(<<":">>)>>),
                  repl |-> <<Txt(<<"f", "o", "r", " ">>), Ref(1), Txt(<<",", " ">>), Ref(2), Txt(<<" ", "i", "n", " ">>),
                             Ref(3), Txt(<<".", "i", "t", "e", "m", "s", "(", ")", ":">>)>>]>>]

\* document.lines of the texts, every line with its line end
TextLines(text) ==
    CASE text = "inherit" -> <<<<"c", "l", "a", "s", "s", " ", "A", "(", "o", "b", "j", "e", "c", "t", ")", ":", "\n">>, <<"x", " ", "=", " ", "1">>>>
      [] text = "compare" -> <<<<"a", " ", "=", "=", " ", "T", "r", "u", "e", "\n">>, <<"F", "a", "l", "s", "e", " ", "=", "=", " ", "b", "\n">>>>
      [] text = "loop" -> <<<<"f", "o", "r", " ", "k", ",", " ", "v", " ", "i", "n", " ", "d", ":", "\n">>, <<"i", "f", " ", "n", "o", "t", " ", "n", "o", "t", " ", "k", ":", "\n">>>>
      [] text = "check" -> <<<<"t", "y", "p", "e", "(", "a", ")", " ", "i", "s", " ", "B", "\n">>, <<"s", " ", "=", " ", "{", "x", " ", "f", "o", "r", " ", "x", " ", "i", "n", " ", "y", "}", "\n">>>>
      [] text = "dirty" -> <<<<"p", "r", "i", "n", "t", "(", "x", ")", "\n">>>>
      [] OTHER -> <<<<"p", "a", "s", "s", "\n">>>>

\* the for loop of _get_replacement_edit over the rule's substitutions
RECURSIVE Replace(_, _)
Replace(replacements, new_line) ==
    IF replacements = << >> THEN new_line
    ELSE Replace(Tail(replacements),
                 Sub(Head(replacements).pattern, Head(replacements).repl,
                     new_line, 1))

\* the edit covers the line below as well
_get_replacement_edit_two_lines(diagnostic, lines) ==
    [range |-> [start |-> Position(diagnostic.range.start.line, 0),
                end |-> Position(diagnostic.range.start.line + 2, 0)],
     new_text |-> Replace(REPLACEMENTS[diagnostic.code],
                          lines[diagnostic.range.start.line + 1])]

_get_replacement_edit(diagnostic, lines) ==
    [range |-> [start |-> Position(diagnostic.range.start.line, 0),
                end |-> Position(diagnostic.range.start.line + 1, 0)],
     new_text |-> Replace(REPLACEMENTS[diagnostic.code],
                          lines[diagnostic.range.start.line + 1])]

\* a code that is registered already is given to the new provider
RECURSIVE quick_fix_overwrite(_, _, _)
quick_fix_overwrite(_solutions, codes, func) ==
    IF codes = << >> THEN [raised |-> FALSE, _solutions |-> _solutions]
    ELSE quick_fix_overwrite((Head(codes) :> func) @@ _solutions,
                             Tail(codes), func)

\* QuickFixSolutions.quick_fix(codes)(func) on the registry _solutions: the
\* registry it leaves and whether it raised QuickFixRegistrationError
RECURSIVE quick_fix(_, _, _)
quick_fix(_solutions, codes, func) ==
    IF codes = << >> THEN [raised |-> FALSE, _solutions |-> _solutions]
    ELSE IF Head(codes) \in DOMAIN _solutions
         THEN [raised |-> TRUE, _solutions |-> _solutions]
         ELSE quick_fix(_solutions @@ (Head(codes) :> func), Tail(codes), func)

\* the decorated providers in the order the module defines them
Decorators ==
    <<[codes |-> <<"C0301:line-too-long", "C0303:trailing-whitespace",
                   "C0304:missing-final-newline", "C0305:trailing-newlines",
                   "C0321:multiple-statements">>,
       func |-> "fix_format"],
      [codes |-> <<"C0410:multiple-imports", "C0411:wrong-import-order",
                   "C0412:ungrouped-imports">>,
       func |-> "organize_imports"],
      [codes |-> <<"C0117:unnecessary-negation", "C0121:singleton-comparison",
                   "C0123:unidiomatic-typecheck",
                   "R0205:useless-object-inheritance",
                   "R1721:unnecessary-comprehension",
                   "E1141:dict-iter-missing-items">>,
       func |-> "fix_with_replacement"]>>

\* the module body up to the start of the server: every decorator in turn,
\* ended by the first one that raises
RECURSIVE Import(_, _)
Import(_solutions, decorators) ==
    IF decorators = << >> THEN [raised |-> FALSE, _solutions |-> _solutions]
    ELSE LET one == quick_fix(_solutions, Head(decorators).codes,
                              Head(decorators).func)
         IN  IF one.raised THEN one
             ELSE Import(one._solutions, Tail(decorators))

\* QUICK_FIXES._solutions: code -> the provider registered for it
QUICK_FIXES == Import(<< >>, Decorators)._solutions

\* an unregistered code gets the formatting provider
solutions_default(code) ==
    IF code \in DOMAIN QUICK_FIXES THEN QUICK_FIXES[code] ELSE "fix_format"

solutions(code) ==
    IF code \in DOMAIN QUICK_FIXES THEN QUICK_FIXES[code] ELSE "None"

_command_quick_fix(diagnostics, title, command) ==
    [title |-> title, kind |-> "quickfix", diagnostics |-> diagnostics,
     command |-> [title |-> title, command |-> command]]

fix_format(document, diagnostics) ==
    <<_command_quick_fix(diagnostics,
                         TOOL_DISPLAY \o ": Run document formatting",
                         "editor.action.formatDocument")>>

organize_imports(document, diagnostics) ==
    <<_command_quick_fix(diagnostics,
                         TOOL_DISPLAY \o ": Run organize imports",
                         "editor.action.organizeImports")>>

_create_workspace_edits(document, results) ==
    [document_changes |->
        <<[text_document |-> [uri |-> document.uri,
                              version |-> document.version],
           edits |-> results]>>]

fix_with_replacement(document, diagnostics) ==
    LET fixable == SelectSeq(diagnostics,
                             LAMBDA d : d.code \in DOMAIN REPLACEMENTS)
    IN  <<[title |-> TOOL_DISPLAY \o ": Run autofix code action",
           kind |-> "quickfix",
           diagnostics |-> diagnostics,
           edit |-> _create_workspace_edits(
                       document,
                       [i \in 1..Len(fixable) |->
                           _get_replacement_edit(fixable[i], document.lines)])]>>

\* LSP_SERVER.workspace.get_document(uri)
get_document(uri) ==
    [uri |-> uri, version |-> docs[uri].version,
     lines |-> TextLines(docs[uri].source)]

\* func(document, diagnostics) for a registered provider
Provide(func, document, diagnostics) ==
    CASE func = "organize_imports" -> organize_imports(document, diagnostics)
      [] func = "fix_with_replacement" ->
            fix_with_replacement(document, diagnostics)
      [] OTHER -> fix_format(document, diagnostics)

\* the loop of code_action over the tool's diagnostics
RECURSIVE Extend(_, _)
Extend(document, diagnostics) ==
    IF diagnostics = << >> THEN << >>
    ELSE LET diagnostic == Head(diagnostics)
             func == solutions(diagnostic.code)
         IN  (IF func = "None" THEN << >>
              ELSE Provide(func, document, <<diagnostic>>))
             \o Extend(document, Tail(diagnostics))

\* one action for each provider, with all the diagnostics of its codes
code_action_grouped(params) ==
    LET diagnostics == SelectSeq(params.context.diagnostics,
                                 LAMBDA d : d.source = TOOL_DISPLAY)
        of(func) == SelectSeq(diagnostics, LAMBDA d : solutions(d.code) = func)
        group(func) == IF of(func) = << >> THEN << >>
                       ELSE Provide(func,
                                    get_document(params.text_document.uri),
                                    of(func))
    IN  group("fix_format") \o group("organize_imports")
        \o group("fix_with_replacement")

code_action(params) ==
    LET diagnostics == SelectSeq(params.context.diagnostics,
                                 LAMBDA d : d.source = TOOL_DISPLAY)
    IN  Extend(get_document(params.text_document.uri), diagnostics)

\* the handler ends with the IndexError of lines[diagnostic.range.start.line]
code_action_raises(params) ==
    LET document == get_document(params.text_document.uri)
    IN  \E i \in 1..Len(params.context.diagnostics) :
            LET d == params.context.diagnostics[i]
            IN  /\ d.source = TOOL_DISPLAY
                /\ solutions(d.code) = "fix_with_replacement"
                /\ d.range.start.line >= Len(document.lines)

(***************************************************************************)
(* Calls of the parser and of the code-action handler on their own: every  *)
(* behaviour makes one call with arguments drawn from the sets below.      *)
(***************************************************************************)
Lines == 1..MaxLine
Columns == 0..MaxColumn

\* records with every combination of line, column, endLine and endColumn
\* present, null or missing
Records ==
    LET base == {Finding(l, c, "W0611", "unused-import", "warning",
                         "Unused import sys") :
                    l \in Lines \cup {Null}, c \in Columns}
    IN  base
        \cup {d @@ [endLine |-> el] : d \in base, el \in Lines \cup {Null}}
        \cup {WithEnd(d, el, ec) : d \in base, el \in Lines \cup {Null},
                                   ec \in Columns \cup {Null}}

\* severity maps with every combination of the three keys of W0611 missing
\* or set to a level, to the empty string or to a word that is no level
Absent == "<absent>"
Overrides == {"Hint", "Information", "", "error", Absent}

SeverityMaps ==
    {[k \in {key \in {"unused-import", "W0611", "warning"} :
                 [n \in {"unused-import", "W0611", "warning"} |->
                    CASE n = "unused-import" -> s [] n = "W0611" -> c
                      [] OTHER -> t][key] # Absent} |->
        CASE k = "unused-import" -> s [] k = "W0611" -> c [] OTHER -> t] :
     s \in Overrides, c \in Overrides, t \in Overrides}

ParseCall(content, severity) ==
    [method |-> "_parse_output", content |-> content, severity |-> severity]

ParseCalls ==
    {ParseCall(Json(<<d>>), DefaultSeverity) : d \in Records}
    \cup {ParseCall(Json(<<UnusedImport>>), m) : m \in SeverityMaps}
    \cup {ParseCall(c, DefaultSeverity) :
            c \in {Json(<<UnusedImport, UndefinedVariable>>),
                   Json(<<UnusedImport, BadRecord>>),
                   Json(<<UnusedImport, WithEnd(UndefinedVariable, 2, Null)>>),
                   Json(<<UnusedImport, UndefinedVariable @@ [endLine |-> 2]>>),
                   Json(<< >>), Garbage}}

\* diagnostics a client may send back in the context of a request
ContextDiagnostics ==
    {[range |-> [start |-> Position(0, 0), end |-> Position(0, 0)],
      message |-> "message", severity |-> "Information", code |-> code,
      source |-> source] :
        code \in {"C0301:line-too-long", "C0304:missing-final-newline",
                  "C0411:wrong-import-order", "E0602:undefined-variable"},
        source \in {TOOL_DISPLAY, "Flake8"}}

RECURSIVE SeqsUpTo(_, _)
SeqsUpTo(S, n) ==
    IF n = 0 THEN {<< >>}
    ELSE SeqsUpTo(S, n - 1)
         \cup {Append(q, x) : q \in SeqsUpTo(S, n - 1), x \in S}

CodeActionCalls ==
    {[method |-> "code_action",
      params |-> [text_document |-> [uri |-> UriA],
                  context |-> [diagnostics |-> ds]]] :
        ds \in SeqsUpTo(ContextDiagnostics, MaxContext)}

\* requests with diagnostics of the pattern rules on every line up to
\* MaxLine, one of another tool and one of a command rule
EditCalls ==
    LET diagnostic(code, l, source) ==
            [range |-> [start |-> Position(l, 0), end |-> Position(l, 1)],
             message |-> "message", severity |-> "Information",
             code |-> code, source |-> source]
        EditDiagnostics ==
            {diagnostic(code, l, TOOL_DISPLAY) :
                code \in DOMAIN REPLACEMENTS, l \in 0..MaxLine}
            \cup {diagnostic("R0205:useless-object-inheritance", 0, "Flake8"),
                  diagnostic("C0301:line-too-long", 0, TOOL_DISPLAY)}
    IN  {[method |-> "code_action",
          params |-> [text_document |-> [uri |-> UriA],
                      context |-> [diagnostics |-> ds]]] :
            ds \in SeqsUpTo(EditDiagnostics, MaxContext)}

\* decorations of a further provider after the first n decorators of the
\* module, with codes that are registered by then and codes that are not
QuickFixCalls ==
    {[method |-> "quick_fix",
      _solutions |-> Import(<< >>, SubSeq(Decorators, 1, n))._solutions,
      codes |-> codes, func |-> "fix_unused"] :
        n \in 0..Len(Decorators),
        codes \in SeqsUpTo({"C0301:line-too-long",
                            "E1141:dict-iter-missing-items",
                            "W0611:unused-import", "W0612:unused-variable"},
                           MaxContext) \ {<< >>}}

\* WORKSPACE_SETTINGS after the updates with the arrays of `updates`, one
\* after the other, in a server started in ServerCwd
RECURSIVE Registered(_)
Registered(updates) ==
    IF updates = << >> THEN << >>
    ELSE _update_workspace_settings(
            Registered(SubSeq(updates, 1, Len(updates) - 1)),
            updates[Len(updates)], GlobalDefaults(<< >>), ServerCwd)

\* Resolutions of a document path after one update (`update` is FALSE), and
\* resolutions next to an update with the array `settings`, the first one of
\* the server or one after an earlier update.  `at` counts the settings
\* the loop of the update has installed.
SettingsCalls ==
    LET arrays == {<<ModuleSetting(RootA)>>,
                   <<ModuleSetting(RootA), ModuleSetting(RootB)>>,
                   <<ModuleSetting(RootA),
                     ModuleSetting(RootA \o <<"pkg">>)>>,
                   <<ModuleSetting(<< >>)>>,
                   <<ModuleSetting(RootA), ModuleSetting(<< >>)>>,
                   << >>}
        paths == {<<"a", "m.py">>, <<"a", "pkg", "m.py">>, <<"b", "n.py">>,
                  <<"m.py">>}
    IN  {[method |-> "settings", earlier |-> <<registered>>,
          update |-> FALSE, settings |-> << >>, at |-> 0, finished |-> TRUE,
          path |-> path] : registered \in arrays, path \in paths}
        \cup
        {[method |-> "settings", earlier |-> earlier, update |-> TRUE,
          settings |-> settings, at |-> 0, finished |-> FALSE,
          path |-> path] :
            earlier \in {<< >>, <<<<ModuleSetting(RootA),
                                    ModuleSetting(RootB)>>>>},
            settings \in arrays, path \in paths}

\* the stderr text is looked at before the exception text
_to_run_result_with_logging_stderr_first(rpc_result) ==
    [stdout |-> rpc_result.stdout,
     stderr |-> IF rpc_result.stderr # "" THEN rpc_result.stderr
                ELSE rpc_result.exception]

\* utils.RunResult(stdout, stderr) made from the result of a delegate call;
\* "" is an empty or absent text
_to_run_result_with_logging(rpc_result) ==
    [stdout |-> rpc_result.stdout,
     stderr |-> IF rpc_result.exception # "" THEN rpc_result.exception
                ELSE IF rpc_result.stderr # "" THEN rpc_result.stderr
                ELSE ""]

\* the results of delegate calls: the output of the tool, what it wrote to
\* stderr and the text of the exception or transport failure of the call
RpcResultCalls ==
    {[method |-> "_to_run_result_with_logging",
      rpc_result |-> [stdout |-> stdout, stderr |-> stderr,
                      exception |-> exception]] :
        stdout \in {"", "[]"}, stderr \in {"", "warning"},
        exception \in {"", "Traceback", "transport failure"}}

CallInit ==
    /\ lint_on_change = FALSE
    /\ request = << >>
    /\ GLOBAL_SETTINGS = << >>
    /\ VERSION_TABLE = << >>
    /\ \E text \in {"clean", "inherit", "compare", "loop", "check"} :
          /\ docs = [u \in URIs |->
                       IF u = UriA
                       THEN [open |-> TRUE, version |-> 1, source |-> text]
                       ELSE NoDocument]
          /\ pending \in IF text = "clean"
                         THEN ParseCalls \cup CodeActionCalls \cup EditCalls
                                 \cup QuickFixCalls \cup SettingsCalls
                                 \cup RpcResultCalls
                         ELSE EditCalls
    /\ WORKSPACE_SETTINGS = IF pending.method = "settings"
                            THEN Registered(pending.earlier) ELSE << >>
    /\ workers = [w \in Workers |-> IdleWorker]
    /\ proc = ServerProc
    /\ CWD_LOCK = 0
    /\ published = [u \in URIs |-> NothingPublished]
    /\ notes = 0
    /\ jsonrpc = NoDelegates
    /\ reply = NoCall

parse_output_returns ==
    /\ pending.method = "_parse_output"
    /\ reply = NoCall
    /\ reply' = [method |-> "_parse_output",
                 published |-> _linting_helper(to_fs_path(UriA), FALSE,
                                               pending.content)]
                   @@ _parse_output(pending.content, pending.severity)
    /\ UNCHANGED <<jsonrpc, pending, lint_on_change, request, WORKSPACE_SETTINGS,
                   GLOBAL_SETTINGS, VERSION_TABLE, docs, workers, proc,
                   CWD_LOCK, published, notes>>

code_action_returns ==
    /\ pending.method = "code_action"
    /\ reply = NoCall
    /\ reply' = [method |-> "code_action",
                 raised |-> code_action_raises(pending.params),
                 code_actions |-> IF code_action_raises(pending.params)
                                  THEN << >>
                                  ELSE code_action(pending.params)]
    /\ UNCHANGED <<jsonrpc, pending, lint_on_change, request, WORKSPACE_SETTINGS,
                   GLOBAL_SETTINGS, VERSION_TABLE, docs, workers, proc,
                   CWD_LOCK, published, notes>>

quick_fix_returns ==
    /\ pending.method = "quick_fix"
    /\ reply = NoCall
    /\ reply' = [method |-> "quick_fix"]
                   @@ quick_fix(pending._solutions, pending.codes,
                                pending.func)
    /\ UNCHANGED <<jsonrpc, pending, lint_on_change, request, WORKSPACE_SETTINGS,
                   GLOBAL_SETTINGS, VERSION_TABLE, docs, workers, proc,
                   CWD_LOCK, published, notes>>

\* one pass of the loop of _update_workspace_settings, or its branch for
\* an empty array
update_workspace_settings_step ==
    /\ pending.method = "settings"
    /\ ~pending.finished
    /\ WORKSPACE_SETTINGS' =
          _update_workspace_settings(
             WORKSPACE_SETTINGS,
             IF pending.settings = << >> THEN << >>
             ELSE <<pending.settings[pending.at + 1]>>,
             GlobalDefaults(GLOBAL_SETTINGS), ServerCwd)
    /\ pending' = [pending EXCEPT
                      !.at = @ + 1,
                      !.finished = pending.at + 1 >= Len(pending.settings)]
    /\ UNCHANGED <<jsonrpc, reply, lint_on_change, request, GLOBAL_SETTINGS,
                   VERSION_TABLE, docs, workers, proc, CWD_LOCK, published,
                   notes>>

\* _get_settings_by_document and _get_settings_by_path on another worker;
\* `mapping` is the WORKSPACE_SETTINGS they read and `first` the key it
\* got first
get_settings_returns ==
    /\ pending.method = "settings"
    /\ reply = NoCall
    /\ LET array == IF pending.earlier # << >> THEN pending.earlier[1]
                    ELSE pending.settings
           first == IF array = << >> THEN normalize_path(ServerCwd)
                    ELSE SettingKey(array[1])
           setting_values == IF WORKSPACE_SETTINGS = << >> THEN << >>
                             ELSE <<WORKSPACE_SETTINGS[first]>>
       IN  reply' = [method |-> "settings",
                     settings |-> _get_settings_by_document(pending.path).val,
                     by_path |-> _get_settings_by_path(pending.path,
                                                       setting_values),
                     first |-> first,
                     mapping |-> WORKSPACE_SETTINGS,
                     at |-> pending.at]
    /\ UNCHANGED <<jsonrpc, pending, lint_on_change, request, WORKSPACE_SETTINGS,
                   GLOBAL_SETTINGS, VERSION_TABLE, docs, workers, proc,
                   CWD_LOCK, published, notes>>

to_run_result_returns ==
    /\ pending.method = "_to_run_result_with_logging"
    /\ reply = NoCall
    /\ reply' = [method |-> "_to_run_result_with_logging", raised |-> FALSE,
                 result |-> _to_run_result_with_logging(pending.rpc_result)]
    /\ UNCHANGED <<jsonrpc, pending, lint_on_change, request, WORKSPACE_SETTINGS,
                   GLOBAL_SETTINGS, VERSION_TABLE, docs, workers, proc,
                   CWD_LOCK, published, notes>>

CallNext ==
    \/ to_run_result_returns
    \/ update_workspace_settings_step
    \/ get_settings_returns
    \/ parse_output_returns
    \/ code_action_returns
    \/ quick_fix_returns

CallSpec == CallInit /\ [][CallNext]_vars

(***************************************************************************)
(* Properties.                                                             *)
(***************************************************************************)

\* C1: handling a document-closed notification for a URI always publishes
\* the empty diagnostic list for that URI and starts no run of the tool,
\* whatever lint runs are in flight; so after open (with a finding) and then
\* close, the last list published for the URI is empty.
C1_CloseClears ==
    [][\A uri \in URIs :
          (docs[uri].open /\ ~docs'[uri].open) =>
              /\ published'[uri].by = "close"
              /\ published'[uri].diagnostics = << >>
              /\ published'[uri].outcome = "none"
              /\ \A w \in Workers : workers'[w].pc = workers[w].pc]_vars

C1_Witness ==
    /\ ~docs[UriA].open
    /\ published[UriA].by = "close"
    /\ published[UriA].before # << >>
    /\ published[UriA].diagnostics = << >>

\* C2: once the close handler has published the empty list, no lint run
\* started before the close publishes a non-empty list for that URI.
C2_NoStaleListAfterClose ==
    \A uri \in URIs :
        ~(published[uri].closed /\ published[uri].diagnostics # << >>)

\* C3: the result of a lint run is published only if the version the run
\* was started for is still the document's version when the run finishes.
C3_OnlyCurrentVersionPublished ==
    \A uri \in URIs :
        published[uri].outcome \in {"ok", "return", "SystemExit"}
            => published[uri].current

C6_RestoredOnEveryExit ==
    [][\A w \in Workers :
          /\ (workers[w].pc = "idle" /\ workers'[w].pc = "lock_wait")
                => workers'[w].saved.path = proc.path
          /\ (workers[w].pc = "lock_wait" /\ workers'[w].pc = "in_tool")
                => /\ workers'[w].saved.argv = proc.argv
                   /\ workers'[w].saved.stdin = proc.stdin
                   /\ workers'[w].saved.stdout = proc.stdout
                   /\ workers'[w].saved.stderr = proc.stderr
          /\ (workers[w].pc = "tool_done" /\ workers'[w].pc = "idle")
                => /\ proc'.argv = workers[w].saved.argv
                   /\ proc'.stdin = workers[w].saved.stdin
                   /\ proc'.stdout = workers[w].saved.stdout
                   /\ proc'.stderr = workers[w].saved.stderr
                   /\ proc'.path = workers[w].saved.path]_vars

C6_Witness ==
    /\ published[UriA].outcome = "exception"
    /\ \A w \in Workers : workers[w].pc = "idle"
    /\ proc = ServerProc

\* C7: a run that is not filtered out uses the external process if the tool
\* path is non-empty, else the delegate if the first interpreter is not the
\* server's own, else the in-process strategy.
C7_StrategyPriority ==
    \A w \in Workers :
        workers[w].pc # "idle" =>
            LET s == _get_settings_by_document(to_fs_path(workers[w].uri)).val
            IN  IF s.path # << >>
                THEN workers[w].pc = "run_path"
                ELSE IF s.interpreter # << >> /\ s.interpreter[1] # ServerInterpreter
                     THEN workers[w].pc = "run_rpc"
                     ELSE workers[w].pc \in {"lock_wait", "in_tool", "tool_done"}

C7_Witness ==
    \E w \in Workers :
        LET s == _get_settings_by_document(to_fs_path(workers[w].uri)).val
        IN  /\ workers[w].pc = "run_path"
            /\ s.interpreter # << >>
            /\ s.interpreter[1] # ServerInterpreter

\* C8: the argument vector of a document run is the tool invocation, the
\* two fixed arguments, the user's arguments, the extra arguments and the
\* file arguments, in that order and with nothing else.
C8_ArgumentAssembly ==
    \A w \in Workers :
        workers[w].pc # "idle" =>
            LET document_path == to_fs_path(workers[w].uri)
                s == _get_settings_by_document(document_path).val
                invocation == IF workers[w].pc = "run_path" THEN s.path
                                                          ELSE <<"pylint">>
                extra == IF /\ s.workspaceFS \in DOMAIN VERSION_TABLE
                            /\ \/ VERSION_TABLE[s.workspaceFS][1] > 2
                               \/ /\ VERSION_TABLE[s.workspaceFS][1] = 2
                                  /\ VERSION_TABLE[s.workspaceFS][2] >= 16
                         THEN <<"--clear-cache-post-run=y">> ELSE << >>
                file == IF workers[w].use_stdin
                        THEN <<"--from-stdin", fspath(document_path)>>
                        ELSE <<fspath(document_path)>>
            IN  workers[w].argv =
                    invocation \o <<"--reports=n", "--output-format=json">>
                               \o s.args \o extra \o file

C8_Witness ==
    \E w \in Workers :
        workers[w].argv = <<"pylint", "--reports=n", "--output-format=json",
                            "--disable=C0114", "--clear-cache-post-run=y",
                            "--from-stdin", "/a/m.py">>

\* C9: lint runs and version probes leave the path, interpreter and args of
\* the registered settings as the client sent them, and every argument
\* vector holds the stdin flag once.
C9_SettingsNotMutated ==
    request # << >> =>
        /\ \A i \in 1..Len(request.settings) :
              LET sent == request.settings[i]
                  kept == WORKSPACE_SETTINGS[to_fs_path(sent.workspace)]
              IN  /\ kept.path = sent.path
                  /\ kept.interpreter = sent.interpreter
                  /\ kept.args = sent.args
        /\ request.settings = << >> =>
              WORKSPACE_SETTINGS[ServerCwd].path =
                  Get(request.globalSettings, "path", << >>)
        /\ GLOBAL_SETTINGS = request.globalSettings
        /\ \A w \in Workers :
              workers[w].pc # "idle" =>
                  Cardinality({i \in 1..Len(workers[w].argv) :
                                  workers[w].argv[i] = "--from-stdin"}) = 1

C9_Witness ==
    \E w \in Workers :
        /\ workers[w].pc = "run_path"
        /\ workers[w].kind = "save"
        /\ published[workers[w].uri].by = "open"
        /\ published[workers[w].uri].outcome = "ok"

\* C10 as stated: a lint handler runs no strategy and publishes the empty
\* list when an ignore glob matches the document path, and runs the tool
\* when none matches.
C10_IgnoreDecidesRun ==
    LET matched(uri) ==
            LET patterns ==
                  _get_settings_by_document(to_fs_path(uri)).val.ignorePatterns
            IN  \E i \in 1..Len(patterns) :
                    GlobMatches(patterns[i], to_fs_path(uri))
    IN  /\ \A w \in Workers : workers[w].pc # "idle" => ~matched(workers[w].uri)
        /\ \A uri \in URIs :
              published[uri].by \in {"open", "save", "change"} =>
                  IF matched(uri)
                  THEN /\ published[uri].outcome = "none"
                       /\ published[uri].diagnostics = << >>
                  ELSE published[uri].outcome # "none"

\* C10 amended: when none matches, the tool is run unless the document is a
\* notebook cell or a file under the site-packages directories.
C10_IgnoreShortCircuit ==
    LET matched(uri) ==
            LET patterns ==
                  _get_settings_by_document(to_fs_path(uri)).val.ignorePatterns
            IN  \E i \in 1..Len(patterns) :
                    GlobMatches(patterns[i], to_fs_path(uri))
    IN  /\ \A w \in Workers : workers[w].pc # "idle" => ~matched(workers[w].uri)
        /\ \A uri \in URIs :
              published[uri].by \in {"open", "save", "change"} =>
                  IF matched(uri)
                  THEN /\ published[uri].outcome = "none"
                       /\ published[uri].diagnostics = << >>
                  ELSE \/ published[uri].outcome # "none"
                       \/ uri.scheme = "vscode-notebook-cell"
                       \/ \E s \in _site_paths : IsPrefix(s, to_fs_path(uri))

C10_Witness ==
    /\ published[UriB].by = "open"
    /\ published[UriB].outcome = "none"
    /\ published[UriB].diagnostics = << >>
    /\ \E k \in DOMAIN WORKSPACE_SETTINGS :
          /\ k = RootB
          /\ is_match(WORKSPACE_SETTINGS[k].ignorePatterns, to_fs_path(UriB))

\* C11: a notebook-cell document and a document under a site-packages
\* directory are filtered before a strategy is chosen: no run is ever in
\* flight for them and their lint handlers publish the empty list.
C11_FilteredBeforeDispatch ==
    LET filtered(uri) ==
            \/ uri.scheme = "vscode-notebook-cell"
            \/ \E s \in _site_paths : IsPrefix(s, to_fs_path(uri))
    IN  /\ filtered(UriCell) /\ filtered(UriStd)
        /\ \A w \in Workers :
              workers[w].pc # "idle" => ~filtered(workers[w].uri)
        /\ \A uri \in URIs :
              (filtered(uri) /\ published[uri].by \in {"open", "save", "change"})
                  => /\ published[uri].outcome = "none"
                     /\ published[uri].diagnostics = << >>

C11_Witness ==
    /\ published[UriCell].by = "open"
    /\ published[UriStd].by = "open"
    /\ \A w \in Workers : workers[w].pc = "idle"

C13_MalformedOutputContained ==
    [][\A w \in Workers :
          (workers[w].pc # "idle" /\ workers'[w].pc = "idle") =>
              LET uri == workers[w].uri
              IN  /\ published'[uri].outcome \in {"malformed", "garbage"}
                        => published'[uri].diagnostics = << >>
                  /\ (/\ published[uri].outcome \in {"malformed", "garbage"}
                      /\ published'[uri].outcome = "ok"
                      /\ workers[w].source = "dirty")
                        => /\ Len(published'[uri].diagnostics) = 1
                           /\ published'[uri].diagnostics[1].code =
                                  "E0602:undefined-variable"]_vars

C13_Witness ==
    \E uri \in URIs :
        /\ published[uri].prior = "malformed"
        /\ published[uri].before = << >>
        /\ published[uri].outcome = "ok"
        /\ Len(published[uri].diagnostics) = 1
        /\ docs[uri].source = "dirty"

\* C14: for every finding with 1-based line L and column C the diagnostic
\* starts at (L-1, C); with an endLine that is present and not null it ends
\* at (endLine-1, endColumn); with endLine missing or null it ends where it
\* starts.
C14_CoordinateConversion ==
    (reply.method = "_parse_output" /\ ~reply.raised) =>
        /\ Len(reply.diagnostics) = Len(pending.content.findings)
        /\ \A i \in 1..Len(reply.diagnostics) :
              LET data == pending.content.findings[i]
                  range == reply.diagnostics[i].range
              IN  /\ range.start = [line |-> data.line - 1,
                                    character |-> data.column]
                  /\ IF "endLine" \in DOMAIN data /\ data.endLine # Null
                     THEN "endColumn" \in DOMAIN data =>
                            range.end = [line |-> data.endLine - 1,
                                         character |-> data.endColumn]
                     ELSE range.end = range.start

C14_Witness ==
    /\ reply.method = "_parse_output"
    /\ ~reply.raised
    /\ Len(pending.content.findings) = 1
    /\ pending.content.findings[1].line = 1
    /\ pending.content.findings[1].column = 1
    /\ "endColumn" \in DOMAIN pending.content.findings[1]
    /\ reply.diagnostics[1].range =
          [start |-> [line |-> 0, character |-> 1],
           end |-> [line |-> 1, character |-> 0]]

\* C15: every diagnostic of the parser ends at or after its start (by line,
\* then character) when the tool gave both endpoints, and ends at its start
\* when the tool gave no end.
C15_EndNotBeforeStart ==
    (reply.method = "_parse_output" /\ ~reply.raised) =>
        \A i \in 1..Len(reply.diagnostics) :
            LET data == pending.content.findings[i]
                start == reply.diagnostics[i].range.start
                end == reply.diagnostics[i].range.end
            IN  /\ (/\ "endLine" \in DOMAIN data /\ data.endLine # Null
                    /\ "endColumn" \in DOMAIN data /\ data.endColumn # Null)
                      => \/ end.line > start.line
                         \/ /\ end.line = start.line
                            /\ end.character >= start.character
                /\ ("endLine" \notin DOMAIN data \/ data.endLine = Null)
                      => end = start

\* C16: the severity is the override of the symbolic name if the map has
\* that key, else the override of the message code if the map has that key,
\* else the override of the category if the map has that key, else Error.
C16_SeverityPrecedence ==
    (reply.method = "_parse_output" /\ ~reply.raised) =>
        \A i \in 1..Len(reply.diagnostics) :
            LET data == pending.content.findings[i]
                map == pending.severity
                selected ==
                    IF data.symbol \in DOMAIN map THEN map[data.symbol]
                    ELSE IF data["message-id"] \in DOMAIN map
                         THEN map[data["message-id"]]
                         ELSE IF data.type \in DOMAIN map THEN map[data.type]
                              ELSE "Error"
            IN  reply.diagnostics[i].severity =
                    IF selected \in {"Error", "Warning", "Information", "Hint"}
                    THEN selected ELSE "Error"

\* C17: an override value that names none of the four levels gives the
\* severity Error; whatever the severity map, the parser returns and every
\* severity is one of the four levels.
C17_UnknownOverrideIsError ==
    (/\ reply.method = "_parse_output"
     /\ pending.content = Json(<<UnusedImport>>)) =>
        LET map == pending.severity
            set(key) == key \in DOMAIN map /\ map[key] # ""
            selected == IF set("unused-import") THEN map["unused-import"]
                        ELSE IF set("W0611") THEN map["W0611"]
                        ELSE IF "warning" \in DOMAIN map THEN map["warning"]
                        ELSE "Error"
        IN  /\ ~reply.raised
            /\ Len(reply.diagnostics) = 1
            /\ reply.diagnostics[1].severity
                  \in {"Error", "Warning", "Information", "Hint"}
            /\ selected \notin {"Error", "Warning", "Information", "Hint"}
                  => reply.diagnostics[1].severity = "Error"

C17_Witness ==
    /\ reply.method = "_parse_output"
    /\ "unused-import" \in DOMAIN pending.severity
    /\ pending.severity["unused-import"] = "error"
    /\ ~reply.raised
    /\ reply.diagnostics[1].severity = "Error"

\* C18: the two-record output of the end-to-end scenario gives exactly the
\* two diagnostics (0,0)-(0,10) Warning W0611:unused-import and
\* (1,0)-(1,0) Error E0602:undefined-variable, in that order.
C18_EndToEndScenario ==
    (/\ reply.method = "_parse_output"
     /\ pending.severity = DefaultSeverity
     /\ pending.content.kind = "json"
     /\ pending.content.findings =
           <<[line |-> 1, column |-> 0, endLine |-> 1, endColumn |-> 10,
              message |-> "Unused import sys", symbol |-> "unused-import",
              type |-> "warning"] @@ ("message-id" :> "W0611"),
             [line |-> 2, column |-> 0,
              message |-> "Undefined variable 'x'",
              symbol |-> "undefined-variable", type |-> "error"]
                @@ ("message-id" :> "E0602")>>) =>
        /\ ~reply.raised
        /\ reply.diagnostics =
              <<[range |-> [start |-> [line |-> 0, character |-> 0],
                            end |-> [line |-> 0, character |-> 10]],
                 message |-> "Unused import sys", severity |-> "Warning",
                 code |-> "W0611:unused-import", source |-> "Pylint"],
                [range |-> [start |-> [line |-> 1, character |-> 0],
                            end |-> [line |-> 1, character |-> 0]],
                 message |-> "Undefined variable 'x'", severity |-> "Error",
                 code |-> "E0602:undefined-variable", source |-> "Pylint"]>>

C18_Witness ==
    /\ reply.method = "_parse_output"
    /\ pending.severity = DefaultSeverity
    /\ Len(pending.content.findings) = 2
    /\ pending.content.findings[2]["message-id"] = "E0602"
    /\ Len(reply.diagnostics) = 2

\* C19: for a request whose N >= 1 context diagnostics all map to the same
\* command rule, one code action is returned and it carries all N
\* diagnostics.
C19_CommandRuleGrouping ==
    reply.method = "code_action" =>
        LET ds == pending.params.context.diagnostics
            format == {"C0301:line-too-long", "C0303:trailing-whitespace",
                       "C0304:missing-final-newline", "C0305:trailing-newlines",
                       "C0321:multiple-statements"}
            imports == {"C0410:multiple-imports", "C0411:wrong-import-order",
                        "C0412:ungrouped-imports"}
        IN  (/\ Len(ds) >= 1
             /\ \A i \in 1..Len(ds) : ds[i].source = "Pylint"
             /\ \/ \A i \in 1..Len(ds) : ds[i].code \in format
                \/ \A i \in 1..Len(ds) : ds[i].code \in imports)
                => /\ Len(reply.code_actions) = 1
                   /\ reply.code_actions[1].diagnostics = ds

\* C20 as stated: when every context diagnostic carries a registered
\* command-rule code, the response has one quick fix for each context
\* diagnostic, in their order, each with that one diagnostic and the title
\* and command of its rule.
C20_OneActionPerDiagnostic ==
    reply.method = "code_action" =>
        LET ds == pending.params.context.diagnostics
            format == {"C0301:line-too-long", "C0303:trailing-whitespace",
                       "C0304:missing-final-newline", "C0305:trailing-newlines",
                       "C0321:multiple-statements"}
            imports == {"C0410:multiple-imports", "C0411:wrong-import-order",
                        "C0412:ungrouped-imports"}
            title(code) == IF code \in format
                           THEN "Pylint: Run document formatting"
                           ELSE "Pylint: Run organize imports"
            command(code) == IF code \in format
                             THEN "editor.action.formatDocument"
                             ELSE "editor.action.organizeImports"
        IN  (\A i \in 1..Len(ds) : ds[i].code \in format \cup imports)
                => /\ Len(reply.code_actions) = Len(ds)
                   /\ \A i \in 1..Len(ds) :
                         reply.code_actions[i] =
                            [title |-> title(ds[i].code), kind |-> "quickfix",
                             diagnostics |-> <<ds[i]>>,
                             command |-> [title |-> title(ds[i].code),
                                          command |-> command(ds[i].code)]]

\* C20 amended: the same, for context diagnostics whose source is the
\* tool's label.
C20_OneActionPerToolDiagnostic ==
    reply.method = "code_action" =>
        LET ds == pending.params.context.diagnostics
            format == {"C0301:line-too-long", "C0303:trailing-whitespace",
                       "C0304:missing-final-newline", "C0305:trailing-newlines",
                       "C0321:multiple-statements"}
            imports == {"C0410:multiple-imports", "C0411:wrong-import-order",
                        "C0412:ungrouped-imports"}
            title(code) == IF code \in format
                           THEN "Pylint: Run document formatting"
                           ELSE "Pylint: Run organize imports"
            command(code) == IF code \in format
                             THEN "editor.action.formatDocument"
                             ELSE "editor.action.organizeImports"
        IN  (\A i \in 1..Len(ds) : /\ ds[i].code \in format \cup imports
                                    /\ ds[i].source = "Pylint")
                => /\ Len(reply.code_actions) = Len(ds)
                   /\ \A i \in 1..Len(ds) :
                         reply.code_actions[i] =
                            [title |-> title(ds[i].code), kind |-> "quickfix",
                             diagnostics |-> <<ds[i]>>,
                             command |-> [title |-> title(ds[i].code),
                                          command |-> command(ds[i].code)]]

C20_Witness ==
    /\ reply.method = "code_action"
    /\ Len(pending.params.context.diagnostics) = 2
    /\ Len(reply.code_actions) = 2
    /\ \A i \in 1..2 : "command" \in DOMAIN reply.code_actions[i]
    /\ reply.code_actions[1].command.command = "editor.action.organizeImports"
    /\ reply.code_actions[2].command.command = "editor.action.formatDocument"
    /\ reply.code_actions[2].diagnostics =
          <<pending.params.context.diagnostics[2]>>

C22_NoMatchKeepsLine ==
    (reply.method = "code_action" /\ ~reply.raised) =>
        LET lines == TextLines(docs[UriA].source)
            mine == SelectSeq(pending.params.context.diagnostics,
                              LAMBDA d : /\ d.source = "Pylint"
                                         /\ d.code \in DOMAIN QUICK_FIXES)
            matches(code, line) ==
                \E n \in 1..Len(REPLACEMENTS[code]), j \in 1..Len(line) :
                    Match(<<REPLACEMENTS[code][n].pattern>>, line, j,
                          [g \in 1..3 |-> << >>]).ok
        IN  \A i \in 1..Len(mine) :
                LET line == lines[mine[i].range.start.line + 1]
                IN  (/\ mine[i].code \in DOMAIN REPLACEMENTS
                     /\ ~matches(mine[i].code, line))
                        => /\ Len(reply.code_actions) = Len(mine)
                           /\ reply.code_actions[i]
                                 .edit.document_changes[1].edits[1].new_text
                                 = line

C22_Witness ==
    /\ reply.method = "code_action"
    /\ ~reply.raised
    /\ docs[UriA].source = "inherit"
    /\ Len(pending.params.context.diagnostics) = 2
    /\ pending.params.context.diagnostics[1].code =
          "E1141:dict-iter-missing-items"
    /\ pending.params.context.diagnostics[1].range.start.line = 0
    /\ pending.params.context.diagnostics[2].code =
          "R0205:useless-object-inheritance"
    /\ pending.params.context.diagnostics[2].range.start.line = 1
    /\ Len(reply.code_actions) = 2
    /\ reply.code_actions[1].edit.document_changes[1].edits[1].new_text =
          <<"c", "l", "a", "s", "s", " ", "A", "(", "o", "b", "j", "e", "c", "t", ")", ":", "\n">>
    /\ reply.code_actions[2].edit.document_changes[1].edits[1].new_text =
          <<"x", " ", "=", " ", "1">>

\* C23: a code-action request gives actions only for context diagnostics
\* whose source is the tool's label and whose code is registered, one for
\* each; a diagnostic of the tool with an unregistered code adds no action
\* and no error, and a request whose diagnostics are all of another source
\* or of unregistered codes returns the empty list.
C23_OnlyRegisteredToolDiagnostics ==
    reply.method = "code_action" =>
        LET ds == pending.params.context.diagnostics
            registered ==
                {"C0301:line-too-long", "C0303:trailing-whitespace",
                 "C0304:missing-final-newline", "C0305:trailing-newlines",
                 "C0321:multiple-statements", "C0410:multiple-imports",
                 "C0411:wrong-import-order", "C0412:ungrouped-imports",
                 "C0117:unnecessary-negation", "C0121:singleton-comparison",
                 "C0123:unidiomatic-typecheck",
                 "R0205:useless-object-inheritance",
                 "R1721:unnecessary-comprehension",
                 "E1141:dict-iter-missing-items"}
            considered == SelectSeq(ds, LAMBDA d : /\ d.source = "Pylint"
                                                    /\ d.code \in registered)
        IN  /\ ~reply.raised =>
                 /\ Len(reply.code_actions) = Len(considered)
                 /\ \A i \in 1..Len(considered) :
                       reply.code_actions[i].diagnostics = <<considered[i]>>
            /\ considered = << >> =>
                 /\ ~reply.raised
                 /\ reply.code_actions = << >>

C23_Witness ==
    /\ reply.method = "code_action"
    /\ ~reply.raised
    /\ reply.code_actions = << >>
    /\ Len(pending.params.context.diagnostics) = 2
    /\ pending.params.context.diagnostics[1].source = "Flake8"
    /\ pending.params.context.diagnostics[1].code = "C0301:line-too-long"
    /\ pending.params.context.diagnostics[2].source = "Pylint"
    /\ pending.params.context.diagnostics[2].code = "E0602:undefined-variable"

\* C24: decorating a provider for a code that is registered already, or
\* twice in the same list, raises the registration error in the decorator,
\* and no code that was registered changes its provider; without such a
\* code every code of the list is registered for the provider.  The
\* module's own decorators raise nothing, so the server starts with a
\* registry that has one provider for each of the fourteen codes, and a
\* code-action request never reports a registration.
C24_DuplicateRejectedAtRegistration ==
    /\ reply.method = "quick_fix" =>
          LET before == pending._solutions
              codes == pending.codes
              duplicate == \E i \in 1..Len(codes) :
                              \/ codes[i] \in DOMAIN before
                              \/ \E j \in 1..(i - 1) : codes[j] = codes[i]
          IN  /\ reply.raised = duplicate
              /\ \A code \in DOMAIN before :
                    /\ code \in DOMAIN reply._solutions
                    /\ reply._solutions[code] = before[code]
              /\ ~duplicate =>
                    /\ DOMAIN reply._solutions =
                          DOMAIN before \cup {codes[i] : i \in 1..Len(codes)}
                    /\ \A i \in 1..Len(codes) :
                          reply._solutions[codes[i]] = pending.func
    /\ ~Import(<< >>, Decorators).raised
    /\ Cardinality(DOMAIN QUICK_FIXES) = 14
    /\ reply.method = "code_action" => "_solutions" \notin DOMAIN reply

C24_Witness ==
    /\ reply.method = "quick_fix"
    /\ reply.raised
    /\ pending.codes = <<"W0611:unused-import", "C0301:line-too-long">>
    /\ pending._solutions["C0301:line-too-long"] = "fix_format"
    /\ reply._solutions["C0301:line-too-long"] = "fix_format"

\* C25: the settings resolved for a file path are those of the nearest
\* ancestor directory of the path that is a registered workspace root; with
\* no registered ancestor they are a record whose cwd and workspace root
\* are the file's parent directory and whose other fields are the global
\* defaults, and the registered workspaces stay as they are.
C25_NearestRegisteredAncestor ==
    (reply.method = "settings" /\ ~pending.update) =>
        LET path == pending.path
            ancestors == {SubSeq(path, 1, n) : n \in 0..(Len(path) - 1)}
            registered == ancestors \cap DOMAIN reply.mapping
            nearest == CHOOSE r \in registered :
                          \A q \in registered : Len(q) <= Len(r)
            parent == SubSeq(path, 1, Len(path) - 1)
        IN  /\ registered # {} => reply.settings = reply.mapping[nearest]
            /\ registered = {} =>
                  reply.settings =
                     [cwd |-> parent, workspaceFS |-> parent,
                      workspace |-> [scheme |-> "file", path |-> parent],
                      path |-> << >>, interpreter |-> <<"python3">>,
                      args |-> << >>, ignorePatterns |-> << >>]
            /\ WORKSPACE_SETTINGS = reply.mapping

\* C26: with exactly one registered workspace, every file path resolves to
\* the settings of that workspace.
C26_SingleRootFastPath ==
    (reply.method = "settings" /\ ~pending.update) =>
        (Cardinality(DOMAIN reply.mapping) = 1 =>
            \A root \in DOMAIN reply.mapping :
                reply.settings = reply.mapping[root])

\* C27: when an update with the settings array S has finished, the
\* registered workspace roots are the roots named in S.
C27_UpdateReplacesMapping ==
    (pending.method = "settings" /\ pending.update /\ pending.finished) =>
        DOMAIN WORKSPACE_SETTINGS =
           {pending.settings[i].workspace.path : i \in 1..Len(pending.settings)}

C29_OneChildPerInterpreter ==
    /\ jsonrpc.children = << >>
    /\ [][LET children == jsonrpc.children
              Has(cs, interpreter) == \E i \in DOMAIN cs : cs[i] = interpreter
              Starts(w) == /\ workers[w].pc = "idle"
                           /\ workers'[w].pc = "run_rpc"
              Probed == {WORKSPACE_SETTINGS'[k].interpreter :
                            k \in {k \in DOMAIN WORKSPACE_SETTINGS' :
                                     Strategy(WORKSPACE_SETTINGS'[k]) = "rpc"}}
          IN  /\ \A i, j \in DOMAIN children' :
                    children'[i] = children'[j] => i = j
              /\ \A w \in Workers :
                    Starts(w) => Has(children', workers'[w].interpreter)
              /\ (children' # children /\ children' # << >>) =>
                    \/ \E w \in Workers :
                          /\ Starts(w)
                          /\ ~Has(children, workers'[w].interpreter)
                          /\ children' = Append(children, workers'[w].interpreter)
                    \/ /\ request = << >> /\ request' # << >>
                       /\ {children'[i] : i \in DOMAIN children'} = Probed
              /\ \A w \in Workers :
                    (Starts(w) /\ Has(children, workers'[w].interpreter))
                        => children' = children]_vars

C29_Witness ==
    /\ Len(jsonrpc.children) = 1
    /\ \E w, v \in Workers :
          /\ workers[w].pc = "run_rpc" /\ workers[v].pc = "run_rpc"
          /\ workers[w].interpreter = workers[v].interpreter
          /\ _get_settings_by_document(to_fs_path(workers[w].uri)).val.workspaceFS
                # _get_settings_by_document(to_fs_path(workers[v].uri)).val.workspaceFS

\* C30: the channel of an interpreter never holds more than one unanswered
\* request, also when two workers lint documents of that interpreter at the
\* same time, and the response a worker receives is the response to the
\* request it wrote: a successful run publishes the diagnostics of the text
\* the worker sent.
C30_StrictRequestResponsePairs ==
    [][/\ \A i, j \in DOMAIN jsonrpc'.requests :
             jsonrpc'.requests[i].interpreter = jsonrpc'.requests[j].interpreter
                 => i = j
       /\ \A w \in Workers :
             (workers[w].pc = "run_rpc" /\ workers'[w].pc = "idle") =>
                 /\ Head(Outstanding(workers[w].interpreter)).worker = w
                 /\ published'[workers[w].uri].outcome = "ok" =>
                        published'[workers[w].uri].diagnostics =
                            _linting_helper(to_fs_path(workers[w].uri), FALSE,
                                            Json(Findings(workers[w].source)))]_vars

C30_Witness ==
    \E w, v \in Workers :
        /\ workers[w].pc = "run_rpc" /\ workers[v].pc = "run_rpc"
        /\ workers[w].interpreter = workers[v].interpreter
        /\ workers[w].source # workers[v].source
        /\ Sent(w) /\ ~Sent(v)

\* C31: once the shutdown handler or the exit handler has run, alone, one
\* after the other or repeated, no delegate child is left, and the call has
\* completed without error, also when an earlier call had already stopped
\* every child.
C31_TeardownIdempotent ==
    reply.method \in {"shutdown", "exit"} =>
        /\ jsonrpc.children = << >>
        /\ ~reply.raised

C31_Witness ==
    /\ reply.method = "exit"
    /\ reply.first = "shutdown"
    /\ reply.calls = 2
    /\ reply.stopped = 2
    /\ jsonrpc.children = << >>

\* C32: the result of a delegate call that ended with an exception or a
\* transport failure becomes a RunResult whose error text is the exception
\* text, also when the delegate wrote to stderr, and whose stdout is the
\* delegate's stdout; the conversion raises nothing.
C32_DelegateFailureIsRunResult ==
    (/\ reply.method = "_to_run_result_with_logging"
     /\ pending.rpc_result.exception # "") =>
        /\ ~reply.raised
        /\ reply.result.stderr = pending.rpc_result.exception
        /\ reply.result.stderr # ""
        /\ reply.result.stdout = pending.rpc_result.stdout

C32_Witness ==
    /\ reply.method = "_to_run_result_with_logging"
    /\ pending.rpc_result.exception = "transport failure"
    /\ pending.rpc_result.stderr = "warning"
    /\ reply.result = [stdout |-> "[]", stderr |-> "transport failure"]

\* C33: once initialize has completed, the version table holds the version
\* of every workspace whose probe printed one, also a version older than
\* the minimum supported one, and holds nothing for a workspace whose probe
\* could not run the tool or printed nothing or no version; the failed
\* probe of one workspace leaves the records of the others in place.
C33_ProbeNeverFatal ==
    request # << >> =>
        \A k \in DOMAIN WORKSPACE_SETTINGS :
            LET root == WORKSPACE_SETTINGS[k].workspaceFS
                result == Get(request.version, root, NoVersion)
                printed == /\ ~result.raised
                           /\ Len(result.stdout) > 0
                           /\ Len(result.stdout[1]) > 1
                           /\ Len(result.stdout[1][2]) = 3
            IN  IF printed
                THEN /\ root \in DOMAIN VERSION_TABLE
                     /\ VERSION_TABLE[root] = result.stdout[1][2]
                ELSE root \notin DOMAIN VERSION_TABLE

\* a lint run under way in a workspace whose probe raised, next to a
\* workspace whose recorded version is older than the minimum
C33_Witness ==
    /\ request # << >>
    /\ RootA \in DOMAIN request.version
    /\ request.version[RootA].raised
    /\ RootA \notin DOMAIN VERSION_TABLE
    /\ RootB \in DOMAIN VERSION_TABLE
    /\ VERSION_TABLE[RootB] = <<2, 11, 0>>
    /\ \E w \in Workers : /\ workers[w].pc # "idle"
                          /\ workers[w].uri = UriA

\* C34: the argument vector of a document's lint run holds
\* --clear-cache-post-run=y if and only if the version table has a record
\* for the workspace root of the document's resolved settings whose major
\* is above 2, or is 2 with a minor of at least 16; without a record the
\* flag is absent.
C34_ClearCacheFlag ==
    \A w \in Workers :
        workers[w].pc # "idle" =>
            LET root == _get_settings_by_document(
                            to_fs_path(workers[w].uri)).val.workspaceFS
                flagged == \E i \in DOMAIN workers[w].argv :
                              workers[w].argv[i] = "--clear-cache-post-run=y"
            IN  flagged <=>
                    /\ root \in DOMAIN VERSION_TABLE
                    /\ \/ VERSION_TABLE[root][1] > 2
                       \/ /\ VERSION_TABLE[root][1] = 2
                          /\ VERSION_TABLE[root][2] >= 16

\* a run with the flag under version 3.0.0
C34_Witness ==
    \E w \in Workers :
        /\ workers[w].pc # "idle"
        /\ \E i \in DOMAIN workers[w].argv :
              workers[w].argv[i] = "--clear-cache-post-run=y"
        /\ LET root == _get_settings_by_document(
                            to_fs_path(workers[w].uri)).val.workspaceFS
           IN  /\ root \in DOMAIN VERSION_TABLE
               /\ VERSION_TABLE[root] = <<3, 0, 0>>

\* C35: with the toggle unset a document-changed notification starts no run
\* and publishes nothing.  With the toggle set it either starts a run of
\* the changed text or, for a document that is filtered out, publishes the
\* empty list at once; the run, when it ends, publishes one list for its
\* URI in place of the list shown before, the diagnostics of the changed
\* text when the tool succeeded and so the empty list for a text without
\* findings.
C35_LintOnChangeToggle ==
    [][/\ \A uri \in URIs :
             (/\ docs[uri].open /\ docs'[uri].open
              /\ docs'[uri].version = docs[uri].version + 1) =>
                 IF ~lint_on_change
                 THEN workers' = workers /\ published' = published
                 ELSE \/ /\ published' = published
                         /\ \E w \in Workers :
                               /\ workers[w].pc = "idle"
                               /\ workers'[w].pc # "idle"
                               /\ workers'[w].kind = "change"
                               /\ workers'[w].uri = uri
                               /\ workers'[w].source = docs'[uri].source
                               /\ workers'[w].version = docs'[uri].version
                      \/ /\ workers' = workers
                         /\ published'[uri].by = "change"
                         /\ published'[uri].diagnostics = << >>
                         /\ \A other \in URIs \ {uri} :
                               published'[other] = published[other]
       /\ \A w \in Workers :
             (/\ workers[w].pc # "idle" /\ workers'[w].pc = "idle"
              /\ workers[w].kind = "change") =>
                 LET uri == workers[w].uri
                 IN  /\ lint_on_change
                     /\ published'[uri].by = "change"
                     /\ published'[uri].before = published[uri].diagnostics
                     /\ \A other \in URIs \ {uri} :
                           published'[other] = published[other]
                     /\ published'[uri].outcome \in {"ok", "return", "SystemExit"}
                           => /\ workers[w].source = "clean"
                                    => published'[uri].diagnostics = << >>
                              /\ workers[w].source = "dirty"
                                    => /\ Len(published'[uri].diagnostics) = 1
                                       /\ published'[uri].diagnostics[1].code
                                              = "E0602:undefined-variable"]_vars

\* the run of a change to a text without findings has cleared the list
C35_Witness ==
    /\ lint_on_change
    /\ \E uri \in URIs :
          /\ published[uri].by = "change"
          /\ published[uri].outcome \in {"ok", "return", "SystemExit"}
          /\ published[uri].diagnostics = << >>
          /\ published[uri].before # << >>
          /\ docs[uri].source = "clean"

\* C36: the version probe of a workspace uses the external process if the
\* tool path is non-empty, else the delegate if the first interpreter is not
\* the server's own, else the in-process strategy, and the strategy is
\* invoked without the stdin flag.
C36_ProbeWithoutStdin ==
    request # << >> =>
        \A k \in DOMAIN WORKSPACE_SETTINGS :
            LET settings == WORKSPACE_SETTINGS[k]
                run == ProbeRun(settings)
            IN  /\ run.strategy =
                      IF settings.path # << >> THEN "path"
                      ELSE IF /\ settings.interpreter # << >>
                              /\ settings.interpreter[1] # ServerInterpreter
                           THEN "rpc"
                           ELSE "module"
                /\ ~run.use_stdin

\* C37: the version table changes only in the step of initialize, where the
\* probes run; the open, save, change and close handlers, the runs they
\* start and the shutdown and exit handlers leave every entry as it is.
C37_VersionTableWrittenByProbeOnly ==
    [][VERSION_TABLE' # VERSION_TABLE
          => (request = << >> /\ request' # << >>)]_vars

\* a document was opened and saved under a table that holds the records
\* of the probes
C37_Witness ==
    /\ request # << >>
    /\ notes = MaxNotifications
    /\ \E uri \in URIs : published[uri].by = "save"
    /\ DOMAIN VERSION_TABLE = {RootA, RootB}
    /\ \A r \in DOMAIN VERSION_TABLE :
          VERSION_TABLE[r] = request.version[r].stdout[1][2]

\* C38: once initialize has ingested the settings array, the workspace
\* settings are not empty and every entry is stored under its own
\* workspaceFS; for an empty array they are one entry, anchored at the
\* working directory of the server and filled from the global defaults.
C38_SettingsNeverEmpty ==
    request # << >> =>
        /\ DOMAIN WORKSPACE_SETTINGS # {}
        /\ \A k \in DOMAIN WORKSPACE_SETTINGS :
              WORKSPACE_SETTINGS[k].workspaceFS = k
        /\ request.settings = << >> =>
              /\ DOMAIN WORKSPACE_SETTINGS = {ServerCwd}
              /\ WORKSPACE_SETTINGS[ServerCwd] =
                    [cwd |-> ServerCwd, workspaceFS |-> ServerCwd,
                     workspace |-> [scheme |-> "file", path |-> ServerCwd],
                     path |-> IF "path" \in DOMAIN request.globalSettings
                              THEN request.globalSettings.path ELSE << >>,
                     interpreter |-> <<ServerInterpreter>>,
                     args |-> << >>, ignorePatterns |-> << >>]

\* initialize with an empty array, and a run started afterwards
C38_Witness ==
    /\ request # << >>
    /\ request.settings = << >>
    /\ DOMAIN WORKSPACE_SETTINGS = {ServerCwd}
    /\ \E w \in Workers : workers[w].pc # "idle"

\* C39: when a workspace is registered at the filesystem root and no other
\* registered root lies above a file, the document of that file resolves to
\* the synthetic default settings and the file path resolves to the entry
\* registered first, and neither is the settings of the root workspace.
C39_RootNeverMatched ==
    (/\ reply.method = "settings" /\ ~pending.update
     /\ << >> \in DOMAIN reply.mapping) =>
        LET path == pending.path
            parent == SubSeq(path, 1, Len(path) - 1)
            above == {SubSeq(path, 1, n) : n \in 1..(Len(path) - 1)}
        IN  above \cap DOMAIN reply.mapping = {} =>
                /\ reply.settings =
                      [cwd |-> parent, workspaceFS |-> parent,
                       workspace |-> [scheme |-> "file", path |-> parent],
                       path |-> << >>, interpreter |-> <<"python3">>,
                       args |-> << >>, ignorePatterns |-> << >>]
                /\ reply.settings # reply.mapping[<< >>]
                /\ ~reply.by_path.raised
                /\ reply.by_path.settings = reply.mapping[reply.first]
                /\ reply.by_path.settings # reply.mapping[<< >>]

\* C39, amended: when a workspace is registered at the filesystem root and
\* no other registered root lies above a file, the document of that file
\* resolves to the synthetic default settings, not to those of the root
\* workspace, and the file path resolves to the entry registered first,
\* which is the root workspace's only when that one was registered first.
C39_RootMatchedOnlyAsFirstEntry ==
    (/\ reply.method = "settings" /\ ~pending.update
     /\ << >> \in DOMAIN reply.mapping) =>
        LET path == pending.path
            parent == SubSeq(path, 1, Len(path) - 1)
            above == {SubSeq(path, 1, n) : n \in 1..(Len(path) - 1)}
        IN  above \cap DOMAIN reply.mapping = {} =>
                /\ reply.settings =
                      [cwd |-> parent, workspaceFS |-> parent,
                       workspace |-> [scheme |-> "file", path |-> parent],
                       path |-> << >>, interpreter |-> <<"python3">>,
                       args |-> << >>, ignorePatterns |-> << >>]
                /\ reply.settings # reply.mapping[<< >>]
                /\ ~reply.by_path.raised
                /\ reply.by_path.settings = reply.mapping[reply.first]
                /\ reply.by_path.settings = reply.mapping[<< >>]
                      <=> reply.first = << >>

\* /b/n.py with /a and the filesystem root registered, /a first
C39_Witness ==
    /\ reply.method = "settings" /\ ~pending.update
    /\ DOMAIN reply.mapping = {RootA, << >>}
    /\ pending.path = <<"b", "n.py">>
    /\ reply.settings.workspaceFS = <<"b">>
    /\ reply.by_path.settings = reply.mapping[RootA]

\* C40: when a record of the output has an endLine that is not null and an
\* endColumn that is present and null, the parser raises and the handler
\* publishes the empty list, whatever well-formed records the output holds;
\* a record with an endLine and no endColumn gets the end character 0.
C40_NullEndColumnDropsRun ==
    (reply.method = "_parse_output" /\ pending.content.kind = "json") =>
        LET findings == pending.content.findings
            NullEndColumn(d) == /\ "endLine" \in DOMAIN d /\ d.endLine # Null
                                /\ "endColumn" \in DOMAIN d
                                /\ d.endColumn = Null
            NoEndColumn(d) == /\ "endLine" \in DOMAIN d /\ d.endLine # Null
                              /\ "endColumn" \notin DOMAIN d
        IN  /\ (\E i \in DOMAIN findings : NullEndColumn(findings[i]))
                  => reply.raised /\ reply.published = << >>
            /\ ~reply.raised =>
                  \A i \in DOMAIN findings :
                      NoEndColumn(findings[i]) =>
                          reply.diagnostics[i].range.end =
                              [line |-> findings[i].endLine - 1,
                               character |-> 0]

\* a well-formed record followed by one with a null endColumn
C40_Witness ==
    /\ reply.method = "_parse_output"
    /\ pending.content.kind = "json"
    /\ Len(pending.content.findings) = 2
    /\ pending.content.findings[1] = UnusedImport
    /\ "endColumn" \in DOMAIN pending.content.findings[2]
    /\ pending.content.findings[2].endLine = 2
    /\ pending.content.findings[2].endColumn = Null
    /\ reply.raised
    /\ reply.published = << >>

====
